---- MODULE Spec2Model ----
(***************************************************************************)
(* Model of the Polymarket ingestor's Connection Manager                   *)
(* (internal.WebSocketClient, src/internal/polymarket.go).                 *)
(*                                                                         *)
(* One WebSocketClient instance is shared by                               *)
(*   - goroutines that call Run()           (Runners),                     *)
(*   - the keepalive goroutine each Run() spawns (startPing),              *)
(*   - goroutines that call Close()         (Closers),                     *)
(*   - a goroutine that calls Connect(), Subscribe() and Unsubscribe()     *)
(*     directly                             (Callers).                     *)
(* Every step of the model is one statement (or one critical section) of   *)
(* the Go code; a goroutine's position is its pc.  An unrecovered panic    *)
(* terminates the Go process, so after a panic no action is enabled.       *)
(***************************************************************************)
EXTENDS Integers, Sequences, FiniteSets, TLC

\* ------------------------------------------------------------------ bounds
\* Number of successful dials (socket handles) explored.
MaxDials == 2
\* Total number of frames the read loops receive.
MaxFrames == 2

\* ------------------------------------------------------- program constants
\* gorilla/websocket close codes used by Run's IsCloseError call.
CloseNormalClosure == 1000
CloseGoingAway == 1001
\* A close code that is not in Run's list (abnormal closure).
CloseAbnormalClosure == 1006

\* ------------------------------------------------------------- goroutines
Runners == {"r1", "r2"}
Closers == {"c1", "c2"}
Callers == {"u1"}
Procs == Runners \cup Closers \cup Callers

NoConn == 0
Handles == 1..MaxDials

\* Frames the peer may send: the keepalive reply and frames that differ from it.
Frames == {"pong", "{a}", "{b}"}

\* Read failures: a peer close frame with its code, or a transport error.
NetError == [close |-> FALSE, code |-> 0]
ReadErrors ==
    { [close |-> TRUE, code |-> c] :
        c \in {CloseNormalClosure, CloseGoingAway, CloseAbnormalClosure} }
    \cup {NetError}

NoErr == [close |-> FALSE, code |-> -1]
NoWrite == [kind |-> "none", closed |-> FALSE]

VARIABLES
    conn,        \* w.conn: NoConn (nil) or a handle
    mu,          \* w.mu: "free" or the goroutine that holds it
    done,        \* w.done is closed
    closed,      \* w.closed
    doneCloses,  \* number of close(w.done) executed
    handles,     \* per dialed handle: state, number of conn.Close() calls, dialed after closed
    dials,       \* handles dialed so far
    pc,          \* position of each goroutine of Procs
    ping,        \* position of the keepalive goroutine spawned by each runner
    result,      \* what each Run() returned
    local,       \* a goroutine's local handle: Connect's conn, or the one ReadMessage blocks on
    lastErr,     \* the read error a runner is handling
    received,    \* frames each read loop has read, in order
    delivered,   \* frames each read loop has passed to the callback, in order
    cbActive,    \* callback invocations of each read loop that have not returned
    lockedClosed, \* w.closed as it was when the present holder of w.mu acquired it
    lastWrite,   \* the last frame written to a socket handle: its kind, and whether
                 \* w.closed was already set when its writer acquired w.mu
    panicAt,     \* "none", the statement that panicked, or "exit" once main() has returned
    loopAtClose, \* runners that were in the receive loop when Close took effect
    runLog,      \* per Run(): dial, keepalive start, subscribe write, first read, in order
    pIn,         \* ParseActivityTrade: the message it is called with
    pOut,        \* ParseActivityTrade: what it returned
    queue,       \* records handed to the Kafka client by Produce, in order
    acks,        \* per record of queue: delivery pending, ok or failed
    last,        \* the last call of the callback or of ProduceTrade, and its outcome
    mainPc,      \* position of main()
    sinksClosed, \* sinks main() has called Close on
    twMode,      \* TradeWriter: "tcp" (background flusher) or "http" (no done channel)
    twMu,        \* TradeWriter.mu: "free" or the goroutine holding it
    twDone,      \* TradeWriter.done is closed
    twBuf,       \* rows buffered in the sender, in order
    twClosed,    \* the sender has been released by sender.Close
    twPc,        \* position of each goroutine using the TradeWriter
    twRows,      \* per row: accepted by Write, flush attempts it was part of, flushes that sent it
    twAppended,  \* rows accepted by the sender, in the order of their At calls
    twFlushes,   \* number of sender.Flush calls made so far, per kind of caller
    twRet,       \* what the last Write, Flush, WriteBatch and Close of each caller returned
    twLog,       \* messages the TradeWriter printed
    twBatch,     \* WriteBatch: the trades it was called with and its position in them
    twFailed,    \* number of sender.Flush calls that returned an error, per kind of caller
    twSending,   \* per goroutine inside sender.Flush: the rows that call found buffered
    dsMu,        \* DiscoveryService.mu: NoTask (free) or the task holding it
    dsSeen,      \* keys of ds.seenAddresses that are true
    dsPc,        \* position of each fetchAndSaveProfile task
    dsAddr,      \* the address each task was started with
    dsWrites,    \* addresses profileWriter.Write was called with, in order
    dsLog        \* messages the discovery service logged

\* The state of the parser and of the producer pipeline.
\* main()'s own state, and the state of the TradeWriter.
mainVars == << mainPc, sinksClosed >>
twVars == << twMode, twMu, twDone, twBuf, twClosed, twPc, twRows, twAppended,
             twFlushes, twRet, twLog, twBatch, twFailed, twSending >>

\* The state of the discovery service.
dsVars == << dsMu, dsSeen, dsPc, dsAddr, dsWrites, dsLog >>

\* Everything but the TradeWriter and the discovery service.
programVarsButDs == << conn, mu, done, closed, doneCloses, handles, dials, pc, ping,
                       result, local, lastErr, received, delivered, cbActive,
                       lockedClosed, lastWrite, panicAt, loopAtClose, runLog,
                       pIn, pOut, queue, acks, last, mainVars >>

\* Everything but the TradeWriter.
programVars == << conn, mu, done, closed, doneCloses, handles, dials, pc, ping,
                  result, local, lastErr, received, delivered, cbActive,
                  lockedClosed, lastWrite, panicAt, loopAtClose, runLog,
                  pIn, pOut, queue, acks, last, mainVars, dsVars >>

pipeVars == << pIn, pOut, queue, acks, last, mainVars, twVars, dsVars >>

vars == << conn, mu, done, closed, doneCloses, handles, dials, pc, ping, result,
           local, lastErr, received, delivered, cbActive, lockedClosed, lastWrite,
           panicAt, loopAtClose, runLog, pipeVars >>

\* Positions of Run() inside its receive loop (polymarket.go:198-234).
LoopPcs == {"select", "read", "reading", "readErr", "callback"}
\* Positions in which a goroutine holds w.mu around a write or the close.
WritePcs == {"subWrite", "unsubWrite"}
ClosePcs == {"closeConn"}

\* NewWebSocketClient: nil conn, open done channel, closed = false.
WsInit ==
    /\ conn = NoConn
    /\ mu = "free"
    /\ done = FALSE
    /\ closed = FALSE
    /\ doneCloses = 0
    /\ handles = [h \in Handles |-> [state |-> "none", closes |-> 0, late |-> FALSE]]
    /\ dials = 0
    /\ pc = [p \in Procs |-> "idle"]
    /\ ping = [r \in Runners |-> "none"]
    /\ result = [r \in Runners |-> "none"]
    /\ local = [p \in Runners \cup Callers |-> NoConn]
    /\ lastErr = [r \in Runners |-> NoErr]
    /\ received = [r \in Runners |-> << >>]
    /\ delivered = [r \in Runners |-> << >>]
    /\ cbActive = [r \in Runners |-> 0]
    /\ lockedClosed = FALSE
    /\ lastWrite = NoWrite
    /\ panicAt = "none"
    /\ loopAtClose = {}
    /\ runLog = [r \in Runners |-> << >>]

Alive == panicAt = "none"

\* Where a goroutine continues after the call it is in returns.
AfterConnect(p) == IF p \in Runners THEN "spawn" ELSE "idle"
AfterSubscribe(p, ok) ==
    IF p \in Runners THEN (IF ok THEN "select" ELSE "closeSwap") ELSE "idle"

\* What Run() has done so far, in order: its dial attempts, the start of its
\* keepalive goroutine, its subscribe writes and its first frame read.
Logged(p, event) ==
    IF p \in Runners THEN [runLog EXCEPT ![p] = Append(@, event)] ELSE runLog
HasRead(r) == \E i \in DOMAIN runLog[r] : runLog[r][i] = "read"

\* ---------------------------------------------------------------- Connect
\* Variant of ConnectDialFail: after a first failed dial Run() dials once more.
ConnectDialFailRetry(p) ==
    /\ Alive
    /\ pc[p] = "idle"
    /\ p \in Runners \cup Callers
    /\ LET again == p \in Runners /\ runLog[p] = << >> IN
       /\ pc' = [pc EXCEPT ![p] = IF p \in Runners /\ ~again THEN "returned" ELSE "idle"]
       /\ result' = IF p \in Runners /\ ~again
                    THEN [result EXCEPT ![p] = "dialerr"] ELSE result
    /\ runLog' = Logged(p, "dialfail")
    /\ UNCHANGED << conn, mu, done, closed, doneCloses, handles, dials, ping,
                    local, lastErr, received, delivered, cbActive, lastWrite,
                    panicAt, loopAtClose, lockedClosed, pipeVars >>

\* Connect, dial failed: the error is returned (Run returns it).
ConnectDialFail(p) ==
    /\ Alive
    /\ pc[p] = "idle"
    /\ p \in Runners \cup Callers
    /\ pc' = [pc EXCEPT ![p] = IF p \in Runners THEN "returned" ELSE "idle"]
    /\ result' = IF p \in Runners THEN [result EXCEPT ![p] = "dialerr"] ELSE result
    /\ runLog' = Logged(p, "dialfail")
    /\ UNCHANGED << conn, mu, done, closed, doneCloses, handles, dials, ping,
                    local, lastErr, received, delivered, cbActive, lastWrite,
                    panicAt, loopAtClose,
                    lockedClosed,
                    pipeVars >>

\* Connect, dial succeeded: a new handle exists, not yet stored in w.conn.
ConnectDial(p) ==
    /\ Alive
    /\ pc[p] = "idle"
    /\ p \in Runners \cup Callers
    /\ dials < MaxDials
    /\ dials' = dials + 1
    /\ handles' = [handles EXCEPT ![dials + 1] =
                       [state |-> "open", closes |-> 0, late |-> closed]]
    /\ local' = [local EXCEPT ![p] = dials + 1]
    /\ runLog' = Logged(p, "dial")
    /\ pc' = [pc EXCEPT ![p] = "install"]
    /\ UNCHANGED << conn, mu, done, closed, doneCloses, ping, result, lastErr,
                    received, delivered, cbActive, lastWrite, panicAt, loopAtClose,
                    lockedClosed,
                    pipeVars >>

\* Connect: w.mu.Lock(); w.conn = conn; w.mu.Unlock().
ConnectInstall(p) ==
    /\ Alive
    /\ pc[p] = "install"
    /\ mu = "free"
    /\ conn' = local[p]
    /\ local' = [local EXCEPT ![p] = NoConn]
    /\ pc' = [pc EXCEPT ![p] = AfterConnect(p)]
    /\ UNCHANGED << mu, done, closed, doneCloses, handles, dials, ping, result,
                    lastErr, received, delivered, cbActive, lastWrite, panicAt,
                    loopAtClose,
                    lockedClosed,
                    runLog, pipeVars >>

\* ------------------------------------------------ Subscribe / Unsubscribe
\* w.mu.Lock() of Subscribe (Run's initial one, or a caller's).
SubscribeLock(p) ==
    /\ Alive
    /\ \/ p \in Runners /\ pc[p] = "subscribe"
       \/ p \in Callers /\ pc[p] = "idle"
    /\ mu = "free"
    /\ lockedClosed' = closed
    /\ mu' = p
    /\ pc' = [pc EXCEPT ![p] = "subWrite"]
    /\ UNCHANGED << conn, done, closed, doneCloses, handles, dials, ping, result,
                    local, lastErr, received, delivered, cbActive, lastWrite,
                    panicAt, loopAtClose,
                    runLog, pipeVars >>

\* w.mu.Lock() of Unsubscribe.
UnsubscribeLock(p) ==
    /\ Alive
    /\ p \in Callers /\ pc[p] = "idle"
    /\ mu = "free"
    /\ lockedClosed' = closed
    /\ mu' = p
    /\ pc' = [pc EXCEPT ![p] = "unsubWrite"]
    /\ UNCHANGED << conn, done, closed, doneCloses, handles, dials, ping, result,
                    local, lastErr, received, delivered, cbActive, lastWrite,
                    panicAt, loopAtClose,
                    runLog, pipeVars >>

\* w.conn.WriteMessage(TextMessage, data) and the deferred w.mu.Unlock().
\* A nil w.conn is dereferenced: the call panics.
WriteFrame(p, kind, ok) ==
    IF conn = NoConn
    THEN /\ panicAt' = kind
         /\ UNCHANGED << mu, pc, lastWrite, lockedClosed, runLog >>
    ELSE /\ lastWrite' = [kind |-> kind, closed |-> lockedClosed]
         /\ mu' = "free"
         /\ lockedClosed' = FALSE
         /\ runLog' = Logged(p, kind)
         /\ pc' = [pc EXCEPT ![p] = AfterSubscribe(p, ok)]
         /\ UNCHANGED panicAt

SubscribeWrite(p) ==
    /\ Alive
    /\ pc[p] = "subWrite"
    /\ \E ok \in BOOLEAN : WriteFrame(p, "subscribe", ok)
    /\ UNCHANGED << conn, done, closed, doneCloses, handles, dials, ping, result,
                    local, lastErr, received, delivered, cbActive, loopAtClose,
                    pipeVars >>

UnsubscribeWrite(p) ==
    /\ Alive
    /\ pc[p] = "unsubWrite"
    /\ \E ok \in BOOLEAN : WriteFrame(p, "unsubscribe", ok)
    /\ UNCHANGED << conn, done, closed, doneCloses, handles, dials, ping, result,
                    local, lastErr, received, delivered, cbActive, loopAtClose,
                    pipeVars >>

\* -------------------------------------------------------------- startPing
\* Run: go w.startPing().
RunSpawnPing(r) ==
    /\ Alive
    /\ pc[r] = "spawn"
    /\ ping' = [ping EXCEPT ![r] = "select"]
    /\ pc' = [pc EXCEPT ![r] = "subscribe"]
    /\ runLog' = Logged(r, "ping")
    /\ UNCHANGED << conn, mu, done, closed, doneCloses, handles, dials, result,
                    local, lastErr, received, delivered, cbActive, lastWrite,
                    panicAt, loopAtClose,
                    lockedClosed,
                    pipeVars >>

\* The keepalive goroutine spawned by runner r, as a holder of w.mu.
PingId(r) == IF r = "r1" THEN "p1" ELSE "p2"

\* Variant of PingTick: the tick goes on to write without taking w.mu.
PingTickNoLock(r) ==
    /\ Alive
    /\ ping[r] = "select"
    /\ ping' = [ping EXCEPT ![r] = "locked"]
    /\ UNCHANGED << conn, mu, done, closed, doneCloses, handles, dials, pc, result,
                    local, lastErr, received, delivered, cbActive, lastWrite,
                    panicAt, loopAtClose,
                    lockedClosed,
                    runLog, pipeVars >>

\* select takes <-ticker.C (Go picks any ready case), then w.mu.Lock().
PingTick(r) ==
    /\ Alive
    /\ ping[r] = "select"
    /\ mu = "free"
    /\ lockedClosed' = closed
    /\ mu' = PingId(r)
    /\ ping' = [ping EXCEPT ![r] = "locked"]
    /\ UNCHANGED << conn, done, closed, doneCloses, handles, dials, pc, result,
                    local, lastErr, received, delivered, cbActive, lastWrite,
                    panicAt, loopAtClose,
                    runLog, pipeVars >>

\* if w.conn != nil { WriteMessage("ping") }; w.mu.Unlock(). A write error is only logged.
PingWrite(r) ==
    /\ Alive
    /\ ping[r] = "locked"
    /\ lastWrite' = IF conn # NoConn
                    THEN [kind |-> "ping", closed |-> lockedClosed]
                    ELSE lastWrite
    /\ mu' = "free"
    /\ lockedClosed' = FALSE
    /\ ping' = [ping EXCEPT ![r] = "select"]
    /\ UNCHANGED << conn, done, closed, doneCloses, handles, dials, pc, result,
                    local, lastErr, received, delivered, cbActive, panicAt,
                    loopAtClose,
                    runLog, pipeVars >>

\* select takes <-w.done: the keepalive goroutine returns.
PingDone(r) ==
    /\ Alive
    /\ ping[r] = "select"
    /\ done
    /\ ping' = [ping EXCEPT ![r] = "exited"]
    /\ UNCHANGED << conn, mu, done, closed, doneCloses, handles, dials, pc, result,
                    local, lastErr, received, delivered, cbActive, lastWrite,
                    panicAt, loopAtClose,
                    lockedClosed,
                    runLog, pipeVars >>

\* ------------------------------------------------------------------ Close
\* Close is entered by a Closer, or by Run after a failed Subscribe.
AtCloseEntry(p) ==
    \/ p \in Closers /\ pc[p] = "idle"
    \/ p \in Runners /\ pc[p] = "closeSwap"

\* What Close leaves behind when it returns to its caller.
CloseReturn(p) ==
    /\ pc' = [pc EXCEPT ![p] = "returned"]
    /\ result' = IF p \in Runners THEN [result EXCEPT ![p] = "suberr"] ELSE result

\* Variant of CloseSwap: the flag is stored without testing its previous value.
CloseSwapNoGuard(p) ==
    /\ Alive
    /\ AtCloseEntry(p)
    /\ closed' = TRUE
    /\ pc' = [pc EXCEPT ![p] = "closeDone"]
    /\ loopAtClose' = IF closed THEN loopAtClose ELSE {r \in Runners : pc[r] \in LoopPcs}
    /\ UNCHANGED << conn, mu, done, doneCloses, handles, dials, ping, result, local,
                    lastErr, received, delivered, cbActive, lastWrite, panicAt,
                    lockedClosed,
                    runLog, pipeVars >>

\* if w.closed.Swap(true) { return }
CloseSwap(p) ==
    /\ Alive
    /\ AtCloseEntry(p)
    /\ closed' = TRUE
    /\ IF closed
       THEN /\ CloseReturn(p)
            /\ UNCHANGED loopAtClose
       ELSE /\ pc' = [pc EXCEPT ![p] = "closeDone"]
            /\ loopAtClose' = {r \in Runners : pc[r] \in LoopPcs}
            /\ UNCHANGED result
    /\ UNCHANGED << conn, mu, done, doneCloses, handles, dials, ping, local,
                    lastErr, received, delivered, cbActive, lastWrite, panicAt,
                    lockedClosed,
                    runLog, pipeVars >>

\* close(w.done): closing a closed channel panics.
CloseDone(p) ==
    /\ Alive
    /\ pc[p] = "closeDone"
    /\ IF done
       THEN /\ panicAt' = "close"
            /\ UNCHANGED << done, doneCloses, pc >>
       ELSE /\ done' = TRUE
            /\ doneCloses' = doneCloses + 1
            /\ pc' = [pc EXCEPT ![p] = "closeLock"]
            /\ UNCHANGED panicAt
    /\ UNCHANGED << conn, mu, closed, handles, dials, ping, result, local, lastErr,
                    received, delivered, cbActive, lastWrite, loopAtClose,
                    lockedClosed,
                    runLog, pipeVars >>

\* w.mu.Lock()
CloseLock(p) ==
    /\ Alive
    /\ pc[p] = "closeLock"
    /\ mu = "free"
    /\ lockedClosed' = closed
    /\ mu' = p
    /\ pc' = [pc EXCEPT ![p] = "closeConn"]
    /\ UNCHANGED << conn, done, closed, doneCloses, handles, dials, ping, result,
                    local, lastErr, received, delivered, cbActive, lastWrite,
                    panicAt, loopAtClose,
                    runLog, pipeVars >>

\* if w.conn != nil { w.conn.Close(); w.conn = nil }; deferred w.mu.Unlock().
CloseConn(p) ==
    /\ Alive
    /\ pc[p] = "closeConn"
    /\ handles' = IF conn # NoConn
                  THEN [handles EXCEPT ![conn] =
                           [@ EXCEPT !.state = "closed", !.closes = @ + 1]]
                  ELSE handles
    /\ conn' = NoConn
    /\ mu' = "free"
    /\ lockedClosed' = FALSE
    /\ CloseReturn(p)
    /\ UNCHANGED << done, closed, doneCloses, dials, ping, local, lastErr,
                    received, delivered, cbActive, lastWrite, panicAt, loopAtClose,
                    runLog, pipeVars >>

\* -------------------------------------------------------- Run: read loop
\* Variant of RunSelect: the loop goes on to its read without testing w.done.
RunSelectNoDone(r) ==
    /\ Alive
    /\ pc[r] = "select"
    /\ pc' = [pc EXCEPT ![r] = "read"]
    /\ UNCHANGED << conn, mu, done, closed, doneCloses, handles, dials, ping,
                    local, lastErr, received, delivered, cbActive, lastWrite,
                    panicAt, loopAtClose, lockedClosed, result,
                    runLog, pipeVars >>

\* select { case <-w.done: return nil; default: ... }
RunSelect(r) ==
    /\ Alive
    /\ pc[r] = "select"
    /\ IF done
       THEN /\ pc' = [pc EXCEPT ![r] = "returned"]
            /\ result' = [result EXCEPT ![r] = "nil_done"]
       ELSE /\ pc' = [pc EXCEPT ![r] = "read"]
            /\ UNCHANGED result
    /\ UNCHANGED << conn, mu, done, closed, doneCloses, handles, dials, ping,
                    local, lastErr, received, delivered, cbActive, lastWrite,
                    panicAt, loopAtClose,
                    lockedClosed,
                    runLog, pipeVars >>

\* w.conn.ReadMessage(): w.conn is loaded without holding w.mu; a nil w.conn is
\* dereferenced (panic), otherwise the read blocks on the loaded handle.
RunRead(r) ==
    /\ Alive
    /\ pc[r] = "read"
    /\ IF conn = NoConn
       THEN /\ panicAt' = "read"
            /\ UNCHANGED << pc, local, runLog >>
       ELSE /\ local' = [local EXCEPT ![r] = conn]
            /\ runLog' = IF HasRead(r) THEN runLog ELSE Logged(r, "read")
            /\ pc' = [pc EXCEPT ![r] = "reading"]
            /\ UNCHANGED panicAt
    /\ UNCHANGED << conn, mu, done, closed, doneCloses, handles, dials, ping,
                    result, lastErr, received, delivered, cbActive, lastWrite,
                    loopAtClose,
                    lockedClosed,
                    pipeVars >>

\* Variant of IsPong: the frame is compared with the token the client sends.
IsPongWrongToken(message) == message = "ping"

\* string(message) == "pong"
IsPong(message) == message = "pong"

FramesRead == Len(received["r1"]) + Len(received["r2"])

\* Variant of ReadFrame: the callback is started as its own goroutine and the
\* loop goes on to its next read at once.
ReadFrameAsync(r, message) ==
    /\ Alive
    /\ pc[r] = "reading"
    /\ handles[local[r]].state = "open"
    /\ FramesRead < MaxFrames
    /\ received' = [received EXCEPT ![r] = Append(@, message)]
    /\ local' = [local EXCEPT ![r] = NoConn]
    /\ pc' = [pc EXCEPT ![r] = "select"]
    /\ IF IsPong(message)
       THEN UNCHANGED << delivered, cbActive >>
       ELSE /\ delivered' = [delivered EXCEPT ![r] = Append(@, message)]
            /\ cbActive' = [cbActive EXCEPT ![r] = @ + 1]
    /\ UNCHANGED << conn, mu, done, closed, doneCloses, handles, dials, ping,
                    result, lastErr, lastWrite, panicAt, loopAtClose,
                    lockedClosed,
                    runLog, pipeVars >>

\* ReadMessage returned a frame: a pong is dropped (continue), any other frame
\* is passed to w.messageCallback.
ReadFrame(r, message) ==
    /\ Alive
    /\ pc[r] = "reading"
    /\ handles[local[r]].state = "open"
    /\ FramesRead < MaxFrames
    /\ received' = [received EXCEPT ![r] = Append(@, message)]
    /\ local' = [local EXCEPT ![r] = NoConn]
    /\ IF IsPong(message)
       THEN /\ pc' = [pc EXCEPT ![r] = "select"]
            /\ UNCHANGED << delivered, cbActive >>
       ELSE /\ delivered' = [delivered EXCEPT ![r] = Append(@, message)]
            /\ cbActive' = [cbActive EXCEPT ![r] = @ + 1]
            /\ pc' = [pc EXCEPT ![r] = "callback"]
    /\ UNCHANGED << conn, mu, done, closed, doneCloses, handles, dials, ping,
                    result, lastErr, lastWrite, panicAt, loopAtClose,
                    lockedClosed,
                    runLog, pipeVars >>

\* w.messageCallback(message) returns; the loop goes on to its next select.
CallbackReturn(r) ==
    /\ Alive
    /\ pc[r] = "callback"
    /\ cbActive' = [cbActive EXCEPT ![r] = @ - 1]
    /\ pc' = [pc EXCEPT ![r] = "select"]
    /\ UNCHANGED << conn, mu, done, closed, doneCloses, handles, dials, ping,
                    result, local, lastErr, received, delivered, lastWrite,
                    panicAt, loopAtClose,
                    lockedClosed,
                    runLog, pipeVars >>

\* ReadMessage returned an error: a read on a handle that Close() has closed
\* fails with a transport error, a read on an open handle fails with whatever
\* the peer or the network produced.
ReadFail(r, err) ==
    /\ Alive
    /\ pc[r] = "reading"
    /\ handles[local[r]].state = "closed" => err = NetError
    /\ lastErr' = [lastErr EXCEPT ![r] = err]
    /\ local' = [local EXCEPT ![r] = NoConn]
    /\ pc' = [pc EXCEPT ![r] = "readErr"]
    /\ UNCHANGED << conn, mu, done, closed, doneCloses, handles, dials, ping,
                    result, received, delivered, cbActive, lastWrite, panicAt,
                    loopAtClose,
                    lockedClosed,
                    runLog, pipeVars >>

\* websocket.IsCloseError(err, codes...)
IsCloseError(err, codes) == err.close /\ err.code \in codes

\* Variant of ReadErrResult: only a normal closure counts as a clean close.
ReadErrResultNormalOnly(isClosed, err) ==
    IF isClosed THEN "nil_closed"
    ELSE IF IsCloseError(err, {CloseNormalClosure}) THEN "nil_peer"
    ELSE "readerr"

\* if w.closed.Load() { return nil }
\* if IsCloseError(err, CloseNormalClosure, CloseGoingAway) { return nil }
\* return err
ReadErrResult(isClosed, err) ==
    IF isClosed THEN "nil_closed"
    ELSE IF IsCloseError(err, {CloseNormalClosure, CloseGoingAway}) THEN "nil_peer"
    ELSE "readerr"

RunReadErr(r) ==
    /\ Alive
    /\ pc[r] = "readErr"
    /\ result' = [result EXCEPT ![r] = ReadErrResult(closed, lastErr[r])]
    /\ pc' = [pc EXCEPT ![r] = "returned"]
    /\ UNCHANGED << conn, mu, done, closed, doneCloses, handles, dials, ping,
                    local, lastErr, received, delivered, cbActive, lastWrite,
                    panicAt, loopAtClose,
                    lockedClosed,
                    runLog, pipeVars >>

\* Run() returned nil / a non-nil error.
ReturnedNil(r) == pc[r] = "returned" /\ result[r] \in {"nil_done", "nil_closed", "nil_peer"}
ReturnedErr(r) == pc[r] = "returned" /\ result[r] \in {"dialerr", "suberr", "readerr"}

\* ===================================================== ParseActivityTrade
\* A JSON value as encoding/json sees it at a struct field: absent from the
\* object, null, a string or a number.  A number n stands for n/100.
Absent == [k |-> "absent", s |-> "", n |-> 0]
Null == [k |-> "null", s |-> "", n |-> 0]
Str(x) == [k |-> "string", s |-> x, n |-> 0]
Num(x) == [k |-> "number", s |-> "", n |-> x]

\* A float64: a finite value (in hundredths), or NaN / an infinity.
Float(x) == [finite |-> TRUE, v |-> x]
NaN == [finite |-> FALSE, v |-> 0]

\* TopicActivity, TypeTrades (utils/dto.go)
TopicActivity == "activity"
TypeTrades == "trades"

\* A message: its first byte ("" when the message is empty), what the bytes
\* are as JSON text (invalid, an object, or another JSON value), and for an
\* object its members topic, type and payload; a payload that is an object has
\* the members side, price, size, transactionHash and outcome.
Msg(first, syntax, topic, type, pk, side, price, size, hash, outcome) ==
    [first |-> first, syntax |-> syntax, topic |-> topic, type |-> type, pk |-> pk,
     side |-> side, price |-> price, size |-> size, hash |-> hash, outcome |-> outcome]

\* Messages that are not a JSON object: empty, "pong", text with leading white
\* space (valid JSON or not), a JSON array, and "{" followed by garbage.
PlainMsg(first, syntax) ==
    Msg(first, syntax, Absent, Absent, "absent", Absent, Absent, Absent, Absent, Absent)

EnvelopeMsg(first, topic, type, pk) ==
    Msg(first, "object", topic, type, pk, Absent, Absent, Absent, Absent, Absent)

TopicValues == {Absent, Str(TopicActivity), Str("comments"), Num(5)}
TypeValues == {Absent, Null, Str(TypeTrades), Str("orders")}
SideValues == {Absent, Str("BUY")}
PriceValues == {Absent, Num(55), Str("0.55")}
SizeValues == {Absent, Num(10000)}
HashValues == {Absent, Str(""), Str("0xabc"), Str("0xdef")}
OutcomeValues == {Absent, Str("Yes")}

Messages ==
    {PlainMsg("", "invalid"), PlainMsg("p", "invalid"), PlainMsg(" ", "invalid"),
     PlainMsg("[", "other"), PlainMsg("{", "invalid")}
    \cup {EnvelopeMsg(f, t, y, pk) :
            f \in {"{", " "}, t \in TopicValues, y \in TypeValues,
            pk \in {"absent", "null", "other"}}
    \cup {Msg("{", "object", t, y, "object", sd, pr, sz, h, o) :
            t \in TopicValues, y \in TypeValues, sd \in SideValues, pr \in PriceValues,
            sz \in SizeValues, h \in HashValues, o \in OutcomeValues}

\* len(message)
MsgLen(message) == IF message.first = "" THEN 0 ELSE 1

\* Errors are chains: an error followed by the errors it wraps (%w).
NilError == << >>
ErrSkipMessage == <<"skip message">>
JsonError == <<"json">>
\* fmt.Errorf("...: %w", err)
Errorf(text, err) == <<text>> \o err
\* errors.Is(err, target): some error of err's chain is target.
ErrorsIs(err, target) ==
    \E i \in 1..Len(err) : SubSeq(err, i, Len(err)) = target

\* encoding/json storing a value in a string / a numeric struct field: absent
\* and null leave the zero value, a value of the wrong JSON type is an error.
StringField(v) ==
    [ok |-> v.k \in {"absent", "null", "string"}, val |-> IF v.k = "string" THEN v.s ELSE ""]
NumberField(v) ==
    [ok |-> v.k \in {"absent", "null", "number"},
     val |-> IF v.k = "number" THEN Float(v.n) ELSE Float(0)]

\* json.Unmarshal(message, &incoming): IncomingMessage{Topic, Type, Payload}.
\* Payload is the raw JSON text of the member, nil when the member is absent.
UnmarshalIncoming(message) ==
    LET topic == StringField(message.topic)
        type == StringField(message.type)
    IN [ok |-> message.syntax = "object" /\ topic.ok /\ type.ok,
        Topic |-> topic.val, Type |-> type.val, Payload |-> message.pk]

\* *ActivityTradePayload: nil, or the fields of the struct.
NilTrade ==
    [nil |-> TRUE, Side |-> "", Price |-> Float(0), Size |-> Float(0), TransactionHash |-> "",
     OutcomeTitle |-> ""]

\* json.Unmarshal(incoming.Payload, &trade): empty input and a JSON value that
\* is not an object are errors, null leaves the zero struct.
UnmarshalTrade(message) ==
    LET side == StringField(message.side)
        price == NumberField(message.price)
        size == NumberField(message.size)
        hash == StringField(message.hash)
        outcome == StringField(message.outcome)
        isObject == message.pk = "object"
    IN [ok |-> \/ message.pk = "null"
               \/ isObject /\ side.ok /\ price.ok /\ size.ok /\ hash.ok /\ outcome.ok,
        trade |-> [nil |-> FALSE,
                   Side |-> IF isObject THEN side.val ELSE "",
                   Price |-> IF isObject THEN price.val ELSE Float(0),
                   Size |-> IF isObject THEN size.val ELSE Float(0),
                   TransactionHash |-> IF isObject THEN hash.val ELSE "",
                   OutcomeTitle |-> IF isObject THEN outcome.val ELSE ""]]

Returns(trade, err, decodes) == [trade |-> trade, err |-> err, decodes |-> decodes]

\* Variant of SkipsUndecoded: only an empty message is skipped without decoding.
SkipsUndecodedEmptyOnly(message) == MsgLen(message) = 0

\* if len(message) == 0 || message[0] != '{' { return nil, ErrSkipMessage }
SkipsUndecoded(message) == MsgLen(message) = 0 \/ message.first # "{"

\* Variant of IsTradeEnvelope: only the topic is tested.
IsTradeEnvelopeTopicOnly(incoming) == incoming.Topic = TopicActivity

\* !(incoming.Topic != TopicActivity || incoming.Type != TypeTrades)
IsTradeEnvelope(incoming) ==
    ~(incoming.Topic # TopicActivity \/ incoming.Type # TypeTrades)

\* Variant of EnvelopeError: a failed envelope decode is reported as a skip.
EnvelopeErrorAsSkip == Errorf("failed to parse incoming message", ErrSkipMessage)

\* fmt.Errorf("failed to parse incoming message: %w", err)
EnvelopeError == Errorf("failed to parse incoming message", JsonError)

\* fmt.Errorf("failed to parse activity trade payload: %w", err)
PayloadError == Errorf("failed to parse activity trade payload", JsonError)

\* ParseActivityTrade(message): the trade, the error, and the number of
\* json.Unmarshal calls made.
ParseActivityTrade(message) ==
    IF SkipsUndecoded(message) THEN Returns(NilTrade, ErrSkipMessage, 0)
    ELSE LET incoming == UnmarshalIncoming(message) IN
         IF ~incoming.ok THEN Returns(NilTrade, EnvelopeError, 1)
         ELSE IF ~IsTradeEnvelope(incoming) THEN Returns(NilTrade, ErrSkipMessage, 1)
         ELSE LET payload == UnmarshalTrade(message) IN
              IF ~payload.ok THEN Returns(NilTrade, PayloadError, 2)
              ELSE Returns(payload.trade, NilError, 2)

\* The callback's test of what ParseActivityTrade returned (main.go):
\* if err != nil { if errors.Is(err, utils.ErrSkipMessage) { return }; log; return }
Classify(ret) ==
    IF ret.err # NilError
    THEN (IF ErrorsIs(ret.err, ErrSkipMessage) THEN "skip" ELSE "parse error")
    ELSE "trade"

\* No call of ParseActivityTrade has returned yet.
NotCalled == [called |-> FALSE, ret |-> Returns(NilTrade, NilError, 0)]

\* A caller calls ParseActivityTrade(pIn).
ParseCall ==
    /\ ~pOut.called
    /\ pOut' = [called |-> TRUE, ret |-> ParseActivityTrade(pIn)]
    /\ UNCHANGED << conn, mu, done, closed, doneCloses, handles, dials, pc, ping,
                    result, local, lastErr, received, delivered, cbActive,
                    lockedClosed, lastWrite, panicAt, loopAtClose, runLog, pIn,
                    queue, acks, last, mainVars, twVars, dsVars >>

\* Neither the callback nor ProduceTrade has been called yet.
NoCall ==
    [via |-> "none", message |-> PlainMsg("", "invalid"), class |-> "none",
     trade |-> NilTrade, err |-> NilError, enq |-> 0, afterFailure |-> FALSE]

\* NewProducer: a client with nothing buffered.
ProducerInit ==
    /\ queue = << >>
    /\ acks = << >>
    /\ last = NoCall

\* main() has constructed its sinks and the client and waits for a signal.
MainInit ==
    /\ mainPc = "running"
    /\ sinksClosed = {}

\* Most rows one Write caller writes, and most flushes the timer and the
\* explicit Flush caller make, in a modelled run.
MaxRows == 2
MaxFlushes == 2

\* Goroutines using one TradeWriter: callers of Write, Flush, Close and
\* WriteBatch, and the backgroundFlush goroutine.
TwClosers == {"k1", "k2"}
TwCallers == {"w1", "f1", "b1"} \cup TwClosers
TwTimer == "t1"
TwProcs == TwCallers \cup {TwTimer}

\* The trades WriteBatch is called with, and the trades Write is called with.
Batch == <<11, 12, 13>>
WriterRows == 1..MaxRows
AllRows == WriterRows \cup {Batch[i] : i \in DOMAIN Batch}

FlushKinds == {"timer", "explicit", "batch", "close"}
NoRow == [accepted |-> FALSE, attempts |-> 0, sent |-> 0]
\* What a call returned: nil or an error, and for a failed Write the trade.
Ret(kind, at) == [kind |-> kind, at |-> at]
NoRet == Ret("none", 0)

\* NewTradeWriter (mode "tcp": done channel and backgroundFlush goroutine) and
\* NewTradeWriterHTTP (mode "http": neither).
TwInit(mode) ==
    /\ twMode = mode
    /\ twMu = "free"
    /\ twDone = FALSE
    /\ twBuf = << >>
    /\ twClosed = FALSE
    /\ twPc = [p \in TwProcs |->
                 IF p = TwTimer THEN (IF mode = "tcp" THEN "select" ELSE "none")
                 ELSE "idle"]
    /\ twRows = [r \in AllRows |-> NoRow]
    /\ twAppended = << >>
    /\ twFlushes = [k \in FlushKinds |-> 0]
    /\ twRet = [p \in TwCallers |-> NoRet]
    /\ twLog = {}
    /\ twBatch = [trades |-> << >>, i |-> 0]
    /\ twFailed = [k \in FlushKinds |-> 0]
    /\ twSending = [p \in TwProcs |-> << >>]

\* Most fetchAndSaveProfile tasks handleTrade spawns in a modelled run.
MaxTasks == 3
Tasks == 1..MaxTasks
NoTask == 0

\* NewDiscoveryService: an empty seenAddresses map, no task spawned.
DsInit ==
    /\ dsMu = NoTask
    /\ dsSeen = {}
    /\ dsPc = [t \in Tasks |-> "none"]
    /\ dsAddr = [t \in Tasks |-> ""]
    /\ dsWrites = << >>
    /\ dsLog = {}

PipeInit ==
    /\ pIn = PlainMsg("", "invalid")
    /\ pOut = NotCalled
    /\ ProducerInit
    /\ MainInit
    /\ TwInit("http")
    /\ DsInit

Init == WsInit /\ PipeInit

\* ParseActivityTrade called once with any message.
InitParse ==
    /\ WsInit
    /\ pIn \in Messages
    /\ pOut = NotCalled
    /\ ProducerInit
    /\ MainInit
    /\ TwInit("http")
    /\ DsInit

NextParse == ParseCall

SpecParse == InitParse /\ [][NextParse]_vars

\* =========================================================== ProduceTrade
\* Most records the Kafka client buffers in a modelled run.
MaxRecords == 3

\* p.topic, fixed by NewProducer(brokers, config.AppConfig.KafkaTopic).
ProducerTopic == "polymarket-trades"

\* []byte(s) for the transaction hashes of the model.
Bytes(s) ==
    CASE s = "0xabc" -> <<48, 120, 97, 98, 99>>
      [] s = "0xdef" -> <<48, 120, 100, 101, 102>>
      [] OTHER -> << >>

\* var key []byte: the nil key.
NilKey == [set |-> FALSE, bytes |-> << >>]

\* Variant of KeyOf: the key is the hash's bytes even when the hash is empty.
KeyOfUnconditional(hash) == [set |-> TRUE, bytes |-> Bytes(hash)]

\* var key []byte; if trade.TransactionHash != "" { key = []byte(trade.TransactionHash) }
KeyOf(hash) == IF hash # "" THEN [set |-> TRUE, bytes |-> Bytes(hash)] ELSE NilKey

\* Variant of TradeMessageOf: price and size change places.
TradeMessageOfSwapped(trade) ==
    [Side |-> trade.Side, Outcome |-> trade.OutcomeTitle,
     TransactionHash |-> trade.TransactionHash, Price |-> trade.Size, Size |-> trade.Price]

\* tradeMessage := TradeMessage{Side: trade.Side, Outcome: trade.OutcomeTitle, ...}
\* (of the twelve fields, those the model's trade record has).
TradeMessageOf(trade) ==
    [Side |-> trade.Side, Outcome |-> trade.OutcomeTitle,
     TransactionHash |-> trade.TransactionHash, Price |-> trade.Price, Size |-> trade.Size]

\* json.Marshal(tradeMessage): a JSON object under the struct's json names;
\* it fails for a float that is NaN or infinite.
Marshal(tm) ==
    [ok |-> tm.Price.finite /\ tm.Size.finite,
     json |-> [side |-> Str(tm.Side), outcome |-> Str(tm.Outcome),
               transactionHash |-> Str(tm.TransactionHash),
               price |-> Num(tm.Price.v), size |-> Num(tm.Size.v)]]

\* &kgo.Record{Topic: p.topic, Key: key, Value: value}
Record(key, value) == [Topic |-> ProducerTopic, Key |-> key, Value |-> value]

\* What a call does: the error it returns and the records it hands to Produce.
Produced(err, records) == [err |-> err, records |-> records]

\* Variant of ProduceTrade: a nil trade is not tested for and goes out as the
\* zero record.
ProduceTradeNoNilCheck(trade) ==
    LET value == Marshal(TradeMessageOf(trade)) IN
    IF ~value.ok
    THEN Produced(Errorf("failed to marshal trade", JsonError), << >>)
    ELSE Produced(NilError, <<Record(KeyOf(trade.TransactionHash), value.json)>>)

\* ProduceTrade(ctx, trade)
ProduceTrade(trade) ==
    IF trade.nil THEN Produced(NilError, << >>)
    ELSE LET value == Marshal(TradeMessageOf(trade)) IN
         IF ~value.ok
         THEN Produced(Errorf("failed to marshal trade", JsonError), << >>)
         ELSE Produced(NilError, <<Record(KeyOf(trade.TransactionHash), value.json)>>)

\* Variant: the record is put at the head of the buffer.
EnqueueFront(records) ==
    /\ queue' = records \o queue
    /\ acks' = [i \in 1..Len(records) |-> "pending"] \o acks

\* p.client.Produce(ctx, record, promise): the record is buffered, its
\* delivery is pending.
Enqueue(records) ==
    /\ queue' = queue \o records
    /\ acks' = acks \o [i \in 1..Len(records) |-> "pending"]

AnyFailed == \E i \in DOMAIN acks : acks[i] = "failed"

\* An activity/trades frame with the given payload members.
TradeFrame(side, price, size, hash, outcome) ==
    Msg("{", "object", Str(TopicActivity), Str(TypeTrades), "object",
        side, price, size, hash, outcome)

\* The trade of the feed's example: BUY 0.55 x 100 of transaction 0xabc.
BuyFrame == TradeFrame(Str("BUY"), Num(55), Num(10000), Str("0xabc"), Str("Yes"))

\* Frames the read loop hands to the callback: not JSON, broken JSON, another
\* topic, trades (two of one transaction, one without hash, one with a null
\* payload), and a trade whose price is a JSON string.
PipeFrames ==
    {PlainMsg("p", "invalid"),
     PlainMsg("{", "invalid"),
     EnvelopeMsg("{", Str("comments"), Str(TypeTrades), "null"),
     EnvelopeMsg("{", Str(TopicActivity), Str(TypeTrades), "null"),
     BuyFrame,
     TradeFrame(Absent, Absent, Num(10000), Str("0xabc"), Absent),
     TradeFrame(Str("BUY"), Num(55), Num(10000), Absent, Str("Yes")),
     TradeFrame(Str("BUY"), Str("0.55"), Num(10000), Str("0xdef"), Str("Yes"))}

Trade(side, price, size, hash, outcome) ==
    [nil |-> FALSE, Side |-> side, Price |-> price, Size |-> size,
     TransactionHash |-> hash, OutcomeTitle |-> outcome]

\* Trades ProduceTrade is called with directly: nil, two of one transaction,
\* one without hash, and one whose price is not a finite number.
DirectTrades ==
    {NilTrade,
     Trade("BUY", Float(55), Float(10000), "0xabc", "Yes"),
     Trade("", Float(0), Float(10000), "0xabc", ""),
     Trade("BUY", Float(55), Float(10000), "", "Yes"),
     Trade("BUY", NaN, Float(10000), "0xdef", "Yes")}

\* messageCallback(message) as wired in main: parse; on an error return (a
\* parse error is logged); otherwise producer.ProduceTrade(ctx, trade), whose
\* error is logged.
CallbackInvoke(message) ==
    /\ Len(queue) < MaxRecords
    /\ LET ret == ParseActivityTrade(message)
           class == Classify(ret)
           out == IF class = "trade" THEN ProduceTrade(ret.trade)
                  ELSE Produced(NilError, << >>)
       IN /\ Enqueue(out.records)
          /\ last' = [via |-> "callback", message |-> message, class |-> class,
                      trade |-> ret.trade, err |-> out.err,
                      enq |-> Len(out.records), afterFailure |-> AnyFailed]
    /\ UNCHANGED << conn, mu, done, closed, doneCloses, handles, dials, pc, ping,
                    result, local, lastErr, received, delivered, cbActive,
                    lockedClosed, lastWrite, panicAt, loopAtClose, runLog, pIn, pOut,
                    mainVars, twVars, dsVars >>

\* A direct call of producer.ProduceTrade(ctx, trade).
ProduceTradeCall(trade) ==
    /\ Len(queue) < MaxRecords
    /\ LET out == ProduceTrade(trade)
       IN /\ Enqueue(out.records)
          /\ last' = [via |-> "direct", message |-> NoCall.message, class |-> "none",
                      trade |-> trade, err |-> out.err,
                      enq |-> Len(out.records), afterFailure |-> AnyFailed]
    /\ UNCHANGED << conn, mu, done, closed, doneCloses, handles, dials, pc, ping,
                    result, local, lastErr, received, delivered, cbActive,
                    lockedClosed, lastWrite, panicAt, loopAtClose, runLog, pIn, pOut,
                    mainVars, twVars, dsVars >>

\* The broker acknowledged record i: the promise runs with a nil error.
DeliverOk(i) ==
    /\ i \in DOMAIN acks
    /\ acks[i] = "pending"
    /\ acks' = [acks EXCEPT ![i] = "ok"]
    /\ UNCHANGED << conn, mu, done, closed, doneCloses, handles, dials, pc, ping,
                    result, local, lastErr, received, delivered, cbActive,
                    lockedClosed, lastWrite, panicAt, loopAtClose, runLog, pIn, pOut,
                    queue, last, mainVars, twVars, dsVars >>

\* Variant of DeliverFail: the delivery error becomes the call's error.
DeliverFailReported(i) ==
    /\ i \in DOMAIN acks
    /\ acks[i] = "pending"
    /\ acks' = [acks EXCEPT ![i] = "failed"]
    /\ last' = [last EXCEPT !.err = <<"kafka produce error">>]
    /\ UNCHANGED << conn, mu, done, closed, doneCloses, handles, dials, pc, ping,
                    result, local, lastErr, received, delivered, cbActive,
                    lockedClosed, lastWrite, panicAt, loopAtClose, runLog, pIn, pOut,
                    queue, mainVars, twVars, dsVars >>

\* Delivery of record i failed: the promise logs "Kafka produce error".
DeliverFail(i) ==
    /\ i \in DOMAIN acks
    /\ acks[i] = "pending"
    /\ acks' = [acks EXCEPT ![i] = "failed"]
    /\ UNCHANGED << conn, mu, done, closed, doneCloses, handles, dials, pc, ping,
                    result, local, lastErr, received, delivered, cbActive,
                    lockedClosed, lastWrite, panicAt, loopAtClose, runLog, pIn, pOut,
                    queue, last, mainVars, twVars, dsVars >>

\* The callback and direct callers of ProduceTrade over one producer, and the
\* broker's acknowledgments.
NextPipe ==
    \/ \E m \in PipeFrames : CallbackInvoke(m)
    \/ \E t \in DirectTrades : ProduceTradeCall(t)
    \/ \E i \in 1..MaxRecords : DeliverOk(i)
    \/ \E i \in 1..MaxRecords : DeliverFail(i)

SpecPipe == Init /\ [][NextPipe]_vars

\* ------------------------------------------------------------------- Next
\* One Run(), one Close() and a goroutine calling Connect/Subscribe/Unsubscribe.
Next ==
    \/ \E p \in {"r1", "u1"} : ConnectDialFail(p)
    \/ \E p \in {"r1", "u1"} : ConnectDial(p)
    \/ \E p \in {"r1", "u1"} : ConnectInstall(p)
    \/ \E p \in {"r1", "u1"} : SubscribeLock(p)
    \/ \E p \in {"r1", "u1"} : SubscribeWrite(p)
    \/ UnsubscribeLock("u1")
    \/ UnsubscribeWrite("u1")
    \/ RunSpawnPing("r1")
    \/ PingTick("r1")
    \/ PingWrite("r1")
    \/ PingDone("r1")
    \/ \E p \in {"r1", "c1"} : CloseSwap(p)
    \/ \E p \in {"r1", "c1"} : CloseDone(p)
    \/ \E p \in {"r1", "c1"} : CloseLock(p)
    \/ \E p \in {"r1", "c1"} : CloseConn(p)
    \/ RunSelect("r1")
    \/ RunRead("r1")
    \/ \E m \in Frames : ReadFrame("r1", m)
    \/ CallbackReturn("r1")
    \/ \E e \in ReadErrors : ReadFail("r1", e)
    \/ RunReadErr("r1")

Spec == Init /\ [][Next]_vars

\* Two concurrent Close() callers around one Run().
NextClose ==
    \/ ConnectDialFail("r1")
    \/ ConnectDial("r1")
    \/ ConnectInstall("r1")
    \/ SubscribeLock("r1")
    \/ SubscribeWrite("r1")
    \/ RunSpawnPing("r1")
    \/ PingTick("r1")
    \/ PingWrite("r1")
    \/ PingDone("r1")
    \/ \E p \in {"r1", "c1", "c2"} : CloseSwap(p)
    \/ \E p \in {"r1", "c1", "c2"} : CloseDone(p)
    \/ \E p \in {"r1", "c1", "c2"} : CloseLock(p)
    \/ \E p \in {"r1", "c1", "c2"} : CloseConn(p)
    \/ RunSelect("r1")
    \/ RunRead("r1")
    \/ \E m \in Frames : ReadFrame("r1", m)
    \/ CallbackReturn("r1")
    \/ \E e \in ReadErrors : ReadFail("r1", e)
    \/ RunReadErr("r1")

SpecClose == Init /\ [][NextClose]_vars

\* Run() called twice on the same instance, the second call after the first
\* has returned, and one Close() at any time.
RunAgain(r) == pc["r1"] = "returned" /\ pc[r] = "idle"
SecondRunDialFail == RunAgain("r2") /\ ConnectDialFail("r2")
SecondRunDial == RunAgain("r2") /\ ConnectDial("r2")

NextTwoRuns ==
    \/ ConnectDialFail("r1")
    \/ ConnectDial("r1")
    \/ SecondRunDialFail
    \/ SecondRunDial
    \/ \E r \in Runners : ConnectInstall(r)
    \/ \E r \in Runners : SubscribeLock(r)
    \/ \E r \in Runners : SubscribeWrite(r)
    \/ \E r \in Runners : RunSpawnPing(r)
    \/ \E r \in Runners : PingTick(r)
    \/ \E r \in Runners : PingWrite(r)
    \/ \E r \in Runners : PingDone(r)
    \/ \E p \in Runners \cup {"c1"} : CloseSwap(p)
    \/ \E p \in Runners \cup {"c1"} : CloseDone(p)
    \/ \E p \in Runners \cup {"c1"} : CloseLock(p)
    \/ \E p \in Runners \cup {"c1"} : CloseConn(p)
    \/ \E r \in Runners : RunSelect(r)
    \/ \E r \in Runners : RunRead(r)
    \/ \E r \in Runners, m \in Frames : ReadFrame(r, m)
    \/ \E r \in Runners : CallbackReturn(r)
    \/ \E r \in Runners, e \in ReadErrors : ReadFail(r, e)
    \/ \E r \in Runners : RunReadErr(r)

SpecTwoRuns == Init /\ [][NextTwoRuns]_vars

\* ======================================== the read loop wired to the producer
\* Frames of the feed: "pong", two trades of transaction 0xabc, and a trade
\* whose price is a JSON string.
FeedFrames == {"pong", "{a}", "{b}", "{c}"}

\* The bytes of a frame as ParseActivityTrade sees them.
FrameMsg(f) ==
    CASE f = "{a}" -> BuyFrame
      [] f = "{b}" -> TradeFrame(Absent, Absent, Num(10000), Str("0xabc"), Absent)
      [] f = "{c}" -> TradeFrame(Str("BUY"), Str("0.55"), Num(10000), Str("0xdef"), Str("Yes"))
      [] OTHER -> PlainMsg("p", "invalid")

\* The frame the callback of read loop r was called with last.
CallbackFrame(r) == delivered[r][Len(delivered[r])]

\* Variant of WiredCallback: a parse error ends Run() with an error.
WiredCallbackFatal(r) ==
    /\ Alive
    /\ pc[r] = "callback"
    /\ LET message == FrameMsg(CallbackFrame(r))
           ret == ParseActivityTrade(message)
           class == Classify(ret)
           out == IF class = "trade" THEN ProduceTrade(ret.trade)
                  ELSE Produced(NilError, << >>)
       IN /\ Enqueue(out.records)
          /\ last' = [via |-> "callback", message |-> message, class |-> class,
                      trade |-> ret.trade, err |-> out.err,
                      enq |-> Len(out.records), afterFailure |-> AnyFailed]
          /\ pc' = [pc EXCEPT ![r] = IF class = "parse error" THEN "returned" ELSE "select"]
          /\ result' = IF class = "parse error"
                       THEN [result EXCEPT ![r] = "readerr"] ELSE result
    /\ cbActive' = [cbActive EXCEPT ![r] = @ - 1]
    /\ UNCHANGED << conn, mu, done, closed, doneCloses, handles, dials, ping,
                    local, lastErr, received, delivered, lockedClosed,
                    lastWrite, panicAt, loopAtClose, runLog, pIn, pOut, mainVars, twVars, dsVars >>

\* w.messageCallback(message) in Run() with the callback main() passes to
\* NewWebSocketClient: the callback runs to its return, then the loop goes on
\* to its next select.
WiredCallback(r) ==
    /\ Alive
    /\ pc[r] = "callback"
    /\ LET message == FrameMsg(CallbackFrame(r))
           ret == ParseActivityTrade(message)
           class == Classify(ret)
           out == IF class = "trade" THEN ProduceTrade(ret.trade)
                  ELSE Produced(NilError, << >>)
       IN /\ Enqueue(out.records)
          /\ last' = [via |-> "callback", message |-> message, class |-> class,
                      trade |-> ret.trade, err |-> out.err,
                      enq |-> Len(out.records), afterFailure |-> AnyFailed]
    /\ cbActive' = [cbActive EXCEPT ![r] = @ - 1]
    /\ pc' = [pc EXCEPT ![r] = "select"]
    /\ UNCHANGED << conn, mu, done, closed, doneCloses, handles, dials, ping,
                    result, local, lastErr, received, delivered, lockedClosed,
                    lastWrite, panicAt, loopAtClose, runLog, pIn, pOut, mainVars, twVars, dsVars >>

\* One Run() whose callback is the one of main(), and one Close().
NextFeed ==
    \/ ConnectDialFail("r1")
    \/ ConnectDial("r1")
    \/ ConnectInstall("r1")
    \/ SubscribeLock("r1")
    \/ SubscribeWrite("r1")
    \/ RunSpawnPing("r1")
    \/ PingTick("r1")
    \/ PingWrite("r1")
    \/ PingDone("r1")
    \/ \E p \in {"r1", "c1"} : CloseSwap(p)
    \/ \E p \in {"r1", "c1"} : CloseDone(p)
    \/ \E p \in {"r1", "c1"} : CloseLock(p)
    \/ \E p \in {"r1", "c1"} : CloseConn(p)
    \/ RunSelect("r1")
    \/ RunRead("r1")
    \/ \E m \in FeedFrames : ReadFrame("r1", m)
    \/ WiredCallback("r1")
    \/ \E e \in ReadErrors : ReadFail("r1", e)
    \/ RunReadErr("r1")

SpecFeed == Init /\ [][NextFeed]_vars

\* ========================================================= main: shutdown
\* The sinks main() constructs and defers Close on: producer.Close() is
\* deferred first, discoveryService.Close() second, so they run in the
\* opposite order.
Sinks == {"producer", "discovery"}
DeferredOrder == <<"discovery", "producer">>

\* <-sigChan: a termination signal arrives.
Signal ==
    /\ Alive
    /\ mainPc = "running"
    /\ mainPc' = "signalled"
    /\ UNCHANGED << conn, mu, done, closed, doneCloses, handles, dials, pc, ping,
                    result, local, lastErr, received, delivered, cbActive,
                    lockedClosed, lastWrite, panicAt, loopAtClose, runLog,
                    pIn, pOut, queue, acks, last, sinksClosed, twVars, dsVars >>

\* client.Close() called by main() after the signal (main is closer c1).
MainCloseSwap == mainPc = "signalled" /\ CloseSwap("c1")

\* client.Close() has returned; main() returns and its deferred calls start.
MainReturn ==
    /\ Alive
    /\ mainPc = "signalled"
    /\ pc["c1"] = "returned"
    /\ mainPc' = "deferred"
    /\ UNCHANGED << conn, mu, done, closed, doneCloses, handles, dials, pc, ping,
                    result, local, lastErr, received, delivered, cbActive,
                    lockedClosed, lastWrite, panicAt, loopAtClose, runLog,
                    pIn, pOut, queue, acks, last, sinksClosed, twVars, dsVars >>

\* The next deferred Close() of a sink runs.
DeferredClose ==
    /\ Alive
    /\ mainPc = "deferred"
    /\ Cardinality(sinksClosed) < Len(DeferredOrder)
    /\ sinksClosed' = sinksClosed \cup {DeferredOrder[Cardinality(sinksClosed) + 1]}
    /\ UNCHANGED << conn, mu, done, closed, doneCloses, handles, dials, pc, ping,
                    result, local, lastErr, received, delivered, cbActive,
                    lockedClosed, lastWrite, panicAt, loopAtClose, runLog,
                    pIn, pOut, queue, acks, last, mainPc, twVars, dsVars >>

\* The deferred calls are done: the process exits and every goroutine ends.
MainExit ==
    /\ Alive
    /\ mainPc = "deferred"
    /\ Cardinality(sinksClosed) = Len(DeferredOrder)
    /\ mainPc' = "exited"
    /\ panicAt' = "exit"
    /\ UNCHANGED << conn, mu, done, closed, doneCloses, handles, dials, pc, ping,
                    result, local, lastErr, received, delivered, cbActive,
                    lockedClosed, lastWrite, loopAtClose, runLog,
                    pIn, pOut, queue, acks, last, sinksClosed, twVars, dsVars >>

\* main(): one Run() in its goroutine, then the signal, client.Close(), the
\* deferred closes and the exit. A panic in any goroutine ends the process.
NextShutdown ==
    \/ ConnectDialFail("r1")
    \/ ConnectDial("r1")
    \/ ConnectInstall("r1")
    \/ SubscribeLock("r1")
    \/ SubscribeWrite("r1")
    \/ RunSpawnPing("r1")
    \/ PingTick("r1")
    \/ PingWrite("r1")
    \/ PingDone("r1")
    \/ Signal
    \/ MainCloseSwap
    \/ CloseSwap("r1")
    \/ \E p \in {"r1", "c1"} : CloseDone(p)
    \/ \E p \in {"r1", "c1"} : CloseLock(p)
    \/ \E p \in {"r1", "c1"} : CloseConn(p)
    \/ RunSelect("r1")
    \/ RunRead("r1")
    \/ \E m \in FeedFrames : ReadFrame("r1", m)
    \/ WiredCallback("r1")
    \/ \E e \in ReadErrors : ReadFail("r1", e)
    \/ RunReadErr("r1")
    \/ MainReturn
    \/ DeferredClose
    \/ MainExit

SpecShutdown == Init /\ [][NextShutdown]_vars

\* ============================================================ TradeWriter
Range(seq) == {seq[i] : i \in DOMAIN seq}

\* sender.Table(...)...At(ctx, ts): the row is appended to the sender's buffer,
\* or the call fails and appends nothing; a released sender accepts no row.
AtAccepts(ok) == ok /\ ~twClosed

AtEffect(row, ok) ==
    IF AtAccepts(ok)
    THEN /\ twBuf' = Append(twBuf, row)
         /\ twAppended' = Append(twAppended, row)
         /\ twRows' = [twRows EXCEPT ![row].accepted = TRUE]
    ELSE UNCHANGED << twBuf, twAppended, twRows >>

AtResult(row, ok) == IF AtAccepts(ok) THEN Ret("nil", 0) ELSE Ret("write error", row)

\* sender.Flush(ctx) starts: it takes the rows buffered at that moment.
FlushBegin(p, kind) ==
    /\ twSending' = [twSending EXCEPT ![p] = twBuf]
    /\ twFlushes' = [twFlushes EXCEPT ![kind] = @ + 1]

\* How a sender.Flush of the rows S can end: all of them sent, or an error
\* after the first k of them were sent, the others kept buffered or discarded.
FlushOutcomes(S) ==
    {[ok |-> TRUE, k |-> Len(S), keep |-> FALSE]}
        \cup {[ok |-> FALSE, k |-> k, keep |-> b] :
                  k \in 0..(IF Len(S) = 0 THEN 0 ELSE Len(S) - 1), b \in BOOLEAN}

\* A released sender refuses to flush.
FlushSucceeds(o) == o.ok /\ ~twClosed

\* sender.Flush(ctx) ends.
FlushEnd(p, kind, o) ==
    LET S == twSending[p]
        attempted == IF twClosed THEN {} ELSE Range(S)
        sent == IF twClosed THEN {} ELSE {S[i] : i \in 1..o.k}
        removed == IF o.keep THEN sent ELSE attempted
        left(row) == row \notin removed
    IN  /\ o \in FlushOutcomes(S)
        /\ twRows' = [row \in AllRows |->
                        [accepted |-> twRows[row].accepted,
                         attempts |-> twRows[row].attempts + (IF row \in attempted THEN 1 ELSE 0),
                         sent |-> twRows[row].sent + (IF row \in sent THEN 1 ELSE 0)]]
        /\ twBuf' = SelectSeq(twBuf, left)
        /\ twSending' = [twSending EXCEPT ![p] = << >>]
        /\ twFailed' = IF FlushSucceeds(o) THEN twFailed
                       ELSE [twFailed EXCEPT ![kind] = @ + 1]

FlushResult(o) == IF FlushSucceeds(o) THEN Ret("nil", 0) ELSE Ret("flush error", 0)

\* The timer and the explicit Flush caller have flushes left in this run.
FlushBudget == twFlushes["timer"] + twFlushes["explicit"] < MaxFlushes

\* Write: w.mu.Lock().
TwWriteLock(p) ==
    /\ Alive
    /\ twPc[p] = "idle"
    /\ \E row \in WriterRows : ~twRows[row].accepted
    /\ twMu = "free"
    /\ twMu' = p
    /\ twPc' = [twPc EXCEPT ![p] = "at"]
    /\ UNCHANGED << programVars, twMode, twDone, twBuf, twClosed, twRows, twAppended,
                    twFlushes, twRet, twLog, twBatch, twFailed, twSending >>

\* Write: return w.sender...At(ctx, ts), then the deferred w.mu.Unlock().
TwWriteAt(p, row, ok) ==
    /\ Alive
    /\ twPc[p] = "at"
    /\ ~twRows[row].accepted
    /\ AtEffect(row, ok)
    /\ twRet' = [twRet EXCEPT ![p] = AtResult(row, ok)]
    /\ twMu' = "free"
    /\ twPc' = [twPc EXCEPT ![p] = "idle"]
    /\ UNCHANGED << programVars, twMode, twDone, twClosed, twFlushes, twLog, twBatch,
                    twFailed, twSending >>

\* Variant: Flush calls sender.Flush(ctx) without taking w.mu.
TwFlushLockFree(p) ==
    /\ Alive
    /\ twPc[p] = "idle"
    /\ FlushBudget
    /\ twMu' = twMu
    /\ twPc' = [twPc EXCEPT ![p] = "flushing"]
    /\ FlushBegin(p, "explicit")
    /\ UNCHANGED << programVars, twMode, twDone, twBuf, twClosed, twRows, twAppended,
                    twRet, twLog, twBatch, twFailed >>

\* Flush: w.mu.Lock(), and sender.Flush(ctx) starts.
TwFlushLock(p) ==
    /\ Alive
    /\ twPc[p] = "idle"
    /\ FlushBudget
    /\ twMu = "free"
    /\ twMu' = p
    /\ twPc' = [twPc EXCEPT ![p] = "flushing"]
    /\ FlushBegin(p, "explicit")
    /\ UNCHANGED << programVars, twMode, twDone, twBuf, twClosed, twRows, twAppended,
                    twRet, twLog, twBatch, twFailed >>

\* Flush: sender.Flush(ctx) returns, its result is returned; w.mu.Unlock().
TwFlushEnd(p, o) ==
    /\ Alive
    /\ twPc[p] = "flushing"
    /\ FlushEnd(p, "explicit", o)
    /\ twRet' = [twRet EXCEPT ![p] = FlushResult(o)]
    /\ twMu' = "free"
    /\ twPc' = [twPc EXCEPT ![p] = "idle"]
    /\ UNCHANGED << programVars, twMode, twDone, twClosed, twAppended, twFlushes,
                    twLog, twBatch >>

\* backgroundFlush: the select takes <-ticker.C.
TwTimerTick ==
    /\ Alive
    /\ twPc[TwTimer] = "select"
    /\ FlushBudget
    /\ twPc' = [twPc EXCEPT ![TwTimer] = "tick"]
    /\ UNCHANGED << programVars, twMode, twMu, twDone, twBuf, twClosed, twRows,
                    twAppended, twFlushes, twRet, twLog, twBatch, twFailed, twSending >>

\* Variant: the tick flushes without taking w.mu.
TwTimerLockFree ==
    /\ Alive
    /\ twPc[TwTimer] = "tick"
    /\ twPc' = [twPc EXCEPT ![TwTimer] = "flushing"]
    /\ FlushBegin(TwTimer, "timer")
    /\ UNCHANGED << programVars, twMode, twMu, twDone, twBuf, twClosed, twRows,
                    twAppended, twRet, twLog, twBatch, twFailed >>

\* backgroundFlush: w.mu.Lock(), and sender.Flush(ctx) starts.
TwTimerLock ==
    /\ Alive
    /\ twPc[TwTimer] = "tick"
    /\ twMu = "free"
    /\ twMu' = TwTimer
    /\ twPc' = [twPc EXCEPT ![TwTimer] = "flushing"]
    /\ FlushBegin(TwTimer, "timer")
    /\ UNCHANGED << programVars, twMode, twDone, twBuf, twClosed, twRows, twAppended,
                    twRet, twLog, twBatch, twFailed >>

\* Variant: a failed tick flush ends the loop.
TwTimerFlushStops(o) ==
    /\ Alive
    /\ twPc[TwTimer] = "flushing"
    /\ FlushEnd(TwTimer, "timer", o)
    /\ twLog' = IF FlushSucceeds(o) THEN twLog ELSE twLog \cup {"flush error"}
    /\ twMu' = "free"
    /\ twPc' = [twPc EXCEPT ![TwTimer] = IF FlushSucceeds(o) THEN "select" ELSE "exited"]
    /\ UNCHANGED << programVars, twMode, twDone, twClosed, twAppended, twFlushes,
                    twRet, twBatch >>

\* backgroundFlush: sender.Flush(ctx) returns, an error is printed;
\* w.mu.Unlock(), back to the select.
TwTimerFlush(o) ==
    /\ Alive
    /\ twPc[TwTimer] = "flushing"
    /\ FlushEnd(TwTimer, "timer", o)
    /\ twLog' = IF FlushSucceeds(o) THEN twLog ELSE twLog \cup {"flush error"}
    /\ twMu' = "free"
    /\ twPc' = [twPc EXCEPT ![TwTimer] = "select"]
    /\ UNCHANGED << programVars, twMode, twDone, twClosed, twAppended, twFlushes,
                    twRet, twBatch >>

\* backgroundFlush: the select takes <-w.done and the goroutine returns.
TwTimerDone ==
    /\ Alive
    /\ twPc[TwTimer] = "select"
    /\ twDone
    /\ twPc' = [twPc EXCEPT ![TwTimer] = "exited"]
    /\ UNCHANGED << programVars, twMode, twMu, twDone, twBuf, twClosed, twRows,
                    twAppended, twFlushes, twRet, twLog, twBatch, twFailed, twSending >>

\* Close: if w.done != nil { close(w.done) }; closing a closed channel panics.
TwCloseDone(p) ==
    /\ Alive
    /\ twPc[p] = "idle"
    /\ IF twMode = "tcp" /\ twDone
       THEN /\ panicAt' = "writer close"
            /\ UNCHANGED << twDone, twPc >>
       ELSE /\ twDone' = (twMode = "tcp")
            /\ twPc' = [twPc EXCEPT ![p] = "lock"]
            /\ UNCHANGED panicAt
    /\ UNCHANGED << conn, mu, done, closed, doneCloses, handles, dials, pc, ping,
                    result, local, lastErr, received, delivered, cbActive,
                    lockedClosed, lastWrite, loopAtClose, runLog,
                    pIn, pOut, queue, acks, last, mainVars, dsVars >>
    /\ UNCHANGED << twMode, twMu, twBuf, twClosed, twRows, twAppended,
                    twFlushes, twRet, twLog, twBatch, twFailed, twSending >>

\* Variant: Close takes w.mu and releases the sender without a final flush.
TwCloseLockSkipsFlush(p) ==
    /\ Alive
    /\ twPc[p] = "lock"
    /\ twMu = "free"
    /\ twMu' = p
    /\ twPc' = [twPc EXCEPT ![p] = "release"]
    /\ UNCHANGED << twSending, twFlushes >>
    /\ UNCHANGED << programVars, twMode, twDone, twBuf, twClosed, twRows, twAppended,
                    twRet, twLog, twBatch, twFailed >>

\* Close: w.mu.Lock(), and the final sender.Flush(ctx) starts.
TwCloseLock(p) ==
    /\ Alive
    /\ twPc[p] = "lock"
    /\ twMu = "free"
    /\ twMu' = p
    /\ twPc' = [twPc EXCEPT ![p] = "finalFlush"]
    /\ FlushBegin(p, "close")
    /\ UNCHANGED << programVars, twMode, twDone, twBuf, twClosed, twRows, twAppended,
                    twRet, twLog, twBatch, twFailed >>

\* Variant: Close returns the final flush's error without releasing the sender.
TwCloseFlushReturns(p, o) ==
    /\ Alive
    /\ twPc[p] = "finalFlush"
    /\ FlushEnd(p, "close", o)
    /\ twLog' = twLog
    /\ twRet' = IF FlushSucceeds(o) THEN twRet ELSE [twRet EXCEPT ![p] = FlushResult(o)]
    /\ twMu' = IF FlushSucceeds(o) THEN twMu ELSE "free"
    /\ twPc' = [twPc EXCEPT ![p] = IF FlushSucceeds(o) THEN "release" ELSE "returned"]
    /\ UNCHANGED << programVars, twMode, twDone, twClosed, twAppended, twFlushes,
                    twBatch >>

\* Close: the final sender.Flush(ctx) returns; an error is printed.
TwCloseFlush(p, o) ==
    /\ Alive
    /\ twPc[p] = "finalFlush"
    /\ FlushEnd(p, "close", o)
    /\ twLog' = IF FlushSucceeds(o) THEN twLog ELSE twLog \cup {"final flush error"}
    /\ twPc' = [twPc EXCEPT ![p] = "release"]
    /\ UNCHANGED << programVars, twMode, twMu, twDone, twClosed, twAppended, twFlushes,
                    twRet, twBatch >>

\* Close: return w.sender.Close(ctx), then the deferred w.mu.Unlock().
TwCloseRelease(p, ok) ==
    /\ Alive
    /\ twPc[p] = "release"
    /\ twClosed' = TRUE
    /\ twRet' = [twRet EXCEPT ![p] = IF ok THEN Ret("nil", 0) ELSE Ret("close error", 0)]
    /\ twMu' = "free"
    /\ twPc' = [twPc EXCEPT ![p] = "returned"]
    /\ UNCHANGED << programVars, twMode, twDone, twBuf, twRows, twAppended, twFlushes,
                    twLog, twBatch, twFailed, twSending >>

\* A TradeWriter in either construction mode, nothing else running.
InitWriter ==
    /\ WsInit
    /\ pIn = PlainMsg("", "invalid")
    /\ pOut = NotCalled
    /\ ProducerInit
    /\ MainInit
    /\ DsInit
    /\ \E mode \in {"tcp", "http"} : TwInit(mode)

\* One caller each of Write, Flush and Close, and the backgroundFlush goroutine.
NextWriter ==
    \/ TwWriteLock("w1")
    \/ \E row \in WriterRows, ok \in BOOLEAN : TwWriteAt("w1", row, ok)
    \/ TwFlushLock("f1")
    \/ \E o \in FlushOutcomes(twSending["f1"]) : TwFlushEnd("f1", o)
    \/ TwTimerTick
    \/ TwTimerLock
    \/ \E o \in FlushOutcomes(twSending[TwTimer]) : TwTimerFlush(o)
    \/ TwTimerDone
    \/ TwCloseDone("k1")
    \/ TwCloseLock("k1")
    \/ \E o \in FlushOutcomes(twSending["k1"]) : TwCloseFlush("k1", o)
    \/ \E ok \in BOOLEAN : TwCloseRelease("k1", ok)

SpecWriter == InitWriter /\ [][NextWriter]_vars

\* Close() called twice on one TradeWriter, one call after or during the
\* other, next to a Write caller and the backgroundFlush goroutine.
NextTwoCloses ==
    \/ \E p \in TwClosers : TwCloseDone(p)
    \/ \E p \in TwClosers : TwCloseLock(p)
    \/ \E p \in TwClosers : \E o \in FlushOutcomes(twSending[p]) : TwCloseFlush(p, o)
    \/ \E p \in TwClosers, ok \in BOOLEAN : TwCloseRelease(p, ok)
    \/ TwWriteLock("w1")
    \/ \E row \in WriterRows, ok \in BOOLEAN : TwWriteAt("w1", row, ok)
    \/ TwTimerTick
    \/ TwTimerLock
    \/ \E o \in FlushOutcomes(twSending[TwTimer]) : TwTimerFlush(o)
    \/ TwTimerDone

SpecTwoCloses == InitWriter /\ [][NextTwoCloses]_vars

\* ------------------------------------------------------------ WriteBatch
\* WriteBatch(ctx, trades) is called with the first n trades of Batch.
TwBatchCall(n) ==
    /\ Alive
    /\ twPc["b1"] = "idle"
    /\ twBatch.i = 0
    /\ twBatch' = [trades |-> SubSeq(Batch, 1, n), i |-> 1]
    /\ twPc' = [twPc EXCEPT !["b1"] = "batch"]
    /\ UNCHANGED << programVars, twMode, twMu, twDone, twBuf, twClosed, twRows,
                    twAppended, twFlushes, twRet, twLog, twFailed, twSending >>

\* WriteBatch: the loop calls w.Write(ctx, trade) for the next trade: w.mu.Lock().
TwBatchWriteLock ==
    /\ Alive
    /\ twPc["b1"] = "batch"
    /\ twBatch.i <= Len(twBatch.trades)
    /\ twMu = "free"
    /\ twMu' = "b1"
    /\ twPc' = [twPc EXCEPT !["b1"] = "batchAt"]
    /\ UNCHANGED << programVars, twMode, twDone, twBuf, twClosed, twRows, twAppended,
                    twFlushes, twRet, twLog, twBatch, twFailed, twSending >>

\* Variant: the loop goes on to the next trade after a failed Write.
TwBatchWriteAtContinues(ok) ==
    /\ Alive
    /\ twPc["b1"] = "batchAt"
    /\ AtEffect(twBatch.trades[twBatch.i], ok)
    /\ twMu' = "free"
    /\ twBatch' = [twBatch EXCEPT !.i = @ + 1]
    /\ twPc' = [twPc EXCEPT !["b1"] = "batch"]
    /\ twRet' = IF AtAccepts(ok) THEN twRet
                ELSE [twRet EXCEPT !["b1"] = AtResult(twBatch.trades[twBatch.i], ok)]
    /\ UNCHANGED << programVars, twMode, twDone, twClosed, twFlushes, twLog, twFailed,
                    twSending >>

\* WriteBatch: that Write returns; on an error WriteBatch returns it, otherwise
\* the loop goes on.
TwBatchWriteAt(ok) ==
    /\ Alive
    /\ twPc["b1"] = "batchAt"
    /\ AtEffect(twBatch.trades[twBatch.i], ok)
    /\ twMu' = "free"
    /\ IF AtAccepts(ok)
       THEN /\ twBatch' = [twBatch EXCEPT !.i = @ + 1]
            /\ twPc' = [twPc EXCEPT !["b1"] = "batch"]
            /\ twRet' = twRet
       ELSE /\ twBatch' = twBatch
            /\ twPc' = [twPc EXCEPT !["b1"] = "returned"]
            /\ twRet' = [twRet EXCEPT !["b1"] = AtResult(twBatch.trades[twBatch.i], ok)]
    /\ UNCHANGED << programVars, twMode, twDone, twClosed, twFlushes, twLog, twFailed,
                    twSending >>

\* WriteBatch: after the loop, return w.Flush(ctx): w.mu.Lock() and
\* sender.Flush(ctx) starts.
TwBatchFlushLock ==
    /\ Alive
    /\ twPc["b1"] = "batch"
    /\ twBatch.i > Len(twBatch.trades)
    /\ twMu = "free"
    /\ twMu' = "b1"
    /\ twPc' = [twPc EXCEPT !["b1"] = "batchFlush"]
    /\ FlushBegin("b1", "batch")
    /\ UNCHANGED << programVars, twMode, twDone, twBuf, twClosed, twRows, twAppended,
                    twRet, twLog, twBatch, twFailed >>

\* Variant: WriteBatch returns nil whatever its flush returned.
TwBatchFlushEndNil(o) ==
    /\ Alive
    /\ twPc["b1"] = "batchFlush"
    /\ FlushEnd("b1", "batch", o)
    /\ twRet' = [twRet EXCEPT !["b1"] = Ret("nil", 0)]
    /\ twMu' = "free"
    /\ twPc' = [twPc EXCEPT !["b1"] = "returned"]
    /\ UNCHANGED << programVars, twMode, twDone, twClosed, twAppended, twFlushes,
                    twLog, twBatch >>

\* WriteBatch: that Flush returns and WriteBatch returns its result.
TwBatchFlushEnd(o) ==
    /\ Alive
    /\ twPc["b1"] = "batchFlush"
    /\ FlushEnd("b1", "batch", o)
    /\ twRet' = [twRet EXCEPT !["b1"] = FlushResult(o)]
    /\ twMu' = "free"
    /\ twPc' = [twPc EXCEPT !["b1"] = "returned"]
    /\ UNCHANGED << programVars, twMode, twDone, twClosed, twAppended, twFlushes,
                    twLog, twBatch >>

\* Another goroutine calls Write once, with trade 1, while WriteBatch runs.
OtherWriteLock == ~twRows[1].accepted /\ TwWriteLock("w1")
OtherWriteAt(ok) == TwWriteAt("w1", 1, ok)

\* One WriteBatch call, next to a Write caller and the backgroundFlush goroutine.
NextBatch ==
    \/ \E n \in 0..Len(Batch) : TwBatchCall(n)
    \/ TwBatchWriteLock
    \/ \E ok \in BOOLEAN : TwBatchWriteAt(ok)
    \/ TwBatchFlushLock
    \/ \E o \in FlushOutcomes(twSending["b1"]) : TwBatchFlushEnd(o)
    \/ OtherWriteLock
    \/ \E ok \in BOOLEAN : OtherWriteAt(ok)
    \/ TwTimerTick
    \/ TwTimerLock
    \/ \E o \in FlushOutcomes(twSending[TwTimer]) : TwTimerFlush(o)

SpecBatch == InitWriter /\ [][NextBatch]_vars

\* ======================================================= DiscoveryService
\* MinimumTradeSize (USD)
MinimumTradeSize == 10000

\* Wallet addresses as they appear in trade messages; two of them differ in
\* letter case only.
Wallets == {"0xAb", "0xab", "0xCD"}

\* Variant of ToLower: the address is used as the key as it is.
ToLowerIdentity(address) == address

\* strings.ToLower(address)
ToLower(address) ==
    CASE address = "0xAb" -> "0xab"
      [] address = "0xCD" -> "0xcd"
      [] OTHER -> address

\* The values of the records handleTrade is called with: whether the value
\* decodes as a TradeMessage, its size, its price (in hundredths) and its
\* proxyWallet ("" when absent).
TradeRecords ==
    {[ok |-> ok, Size |-> sz, Price |-> pr, ProxyWallet |-> w] :
        ok \in BOOLEAN, sz \in {5000, 40000}, pr \in {25, 50}, w \in Wallets \cup {""}}

\* tradeSizeInUSD < MinimumTradeSize, with the price in hundredths
BelowMinimum(rec) == rec.Size * rec.Price < MinimumTradeSize * 100

\* The tasks handleTrade has spawned so far.
Spawned == {t \in Tasks : dsPc[t] # "none"}

\* handleTrade(record): decode, filter by size in USD, and for a non-empty
\* proxyWallet start fetchAndSaveProfile in a goroutine of its own.
HandleTrade(rec) ==
    /\ Alive
    /\ Cardinality(Spawned) < MaxTasks
    /\ LET t == Cardinality(Spawned) + 1 IN
       IF ~rec.ok
       THEN /\ dsLog' = dsLog \cup {"unmarshal error"}
            /\ UNCHANGED << dsPc, dsAddr >>
       ELSE IF BelowMinimum(rec)
       THEN UNCHANGED << dsLog, dsPc, dsAddr >>
       ELSE /\ dsLog' = dsLog \cup {"high-value trade"}
            /\ IF rec.ProxyWallet # ""
               THEN /\ dsPc' = [dsPc EXCEPT ![t] = "lock"]
                    /\ dsAddr' = [dsAddr EXCEPT ![t] = rec.ProxyWallet]
               ELSE UNCHANGED << dsPc, dsAddr >>
    /\ UNCHANGED << programVarsButDs, twVars, dsMu, dsSeen, dsWrites >>

\* fetchAndSaveProfile: ds.mu.Lock().
DsLock(t) ==
    /\ Alive
    /\ dsPc[t] = "lock"
    /\ dsMu = NoTask
    /\ dsMu' = t
    /\ dsPc' = [dsPc EXCEPT ![t] = "check"]
    /\ UNCHANGED << programVarsButDs, twVars, dsSeen, dsAddr, dsWrites, dsLog >>

\* fetchAndSaveProfile: if seenAddresses[lower] { Unlock; return };
\* seenAddresses[lower] = true; Unlock.
DsCheckMark(t) ==
    /\ Alive
    /\ dsPc[t] = "check"
    /\ IF ToLower(dsAddr[t]) \in dsSeen
       THEN /\ dsPc' = [dsPc EXCEPT ![t] = "skipped"]
            /\ UNCHANGED dsSeen
       ELSE /\ dsSeen' = dsSeen \cup {ToLower(dsAddr[t])}
            /\ dsPc' = [dsPc EXCEPT ![t] = "write"]
    /\ dsMu' = NoTask
    /\ UNCHANGED << programVarsButDs, twVars, dsAddr, dsWrites, dsLog >>

\* fetchAndSaveProfile: ds.profileWriter.Write(ctx, profile); an error is
\* logged and the task returns.
DsWrite(t, ok) ==
    /\ Alive
    /\ dsPc[t] = "write"
    /\ dsWrites' = Append(dsWrites, dsAddr[t])
    /\ dsLog' = IF ok THEN dsLog ELSE dsLog \cup {"write error"}
    /\ dsPc' = [dsPc EXCEPT ![t] = IF ok THEN "flush" ELSE "failed"]
    /\ UNCHANGED << programVarsButDs, twVars, dsMu, dsSeen, dsAddr >>

\* fetchAndSaveProfile: ds.profileWriter.Flush(ctx); an error is logged and
\* the task returns, otherwise the saved profile is logged.
DsFlush(t, ok) ==
    /\ Alive
    /\ dsPc[t] = "flush"
    /\ dsLog' = dsLog \cup {IF ok THEN "saved" ELSE "flush error"}
    /\ dsPc' = [dsPc EXCEPT ![t] = IF ok THEN "saved" ELSE "failed"]
    /\ UNCHANGED << programVarsButDs, twVars, dsMu, dsSeen, dsAddr, dsWrites >>

\* The consumer's handler and the tasks it has spawned.
NextDiscovery ==
    \/ \E rec \in TradeRecords : HandleTrade(rec)
    \/ \E t \in Tasks : DsLock(t)
    \/ \E t \in Tasks : DsCheckMark(t)
    \/ \E t \in Tasks, ok \in BOOLEAN : DsWrite(t, ok)
    \/ \E t \in Tasks, ok \in BOOLEAN : DsFlush(t, ok)

SpecDiscovery == Init /\ [][NextDiscovery]_vars

\* ================================================================= claims
\* Goroutines inside a critical section of w.mu: a subscribe or unsubscribe
\* write, a ping write, or Close's close-and-clear.
InCritical ==
    {p \in Procs : pc[p] \in WritePcs \cup ClosePcs}
    \cup {PingId(r) : r \in {q \in Runners : ping[q] = "locked"}}

NotPong(m) == m # "pong"

\* The failure is a clean close from the peer: normal closure or going away.
CleanPeerClose(err) == err.close /\ (err.code = CloseNormalClosure \/ err.code = CloseGoingAway)

\* C1: however many Close() calls are made, concurrently or one after the
\* other, before Connect or after a completed close: none panics, close(done)
\* is executed exactly once (once the flag is set and the closing goroutine is
\* past that statement) and no socket handle is closed twice.
C1_CloseIdempotent ==
    /\ panicAt # "close"
    /\ doneCloses <= 1
    /\ \A h \in Handles : handles[h].closes <= 1
    /\ (closed /\ \A p \in Procs : pc[p] # "closeDone") => (done /\ doneCloses = 1)

\* C1 witness: two Close() callers have both returned and the handle Run
\* installed has been closed, once.
C1_Witness ==
    /\ pc["c1"] = "returned"
    /\ pc["c2"] = "returned"
    /\ \E h \in Handles : handles[h].closes = 1

\* C2 (as claimed): no ping, subscribe or unsubscribe frame is written to a
\* socket handle once the closed flag is true; refuted already by a write whose
\* writer took the guard after the flag was set.
C2_NoWriteAfterClosed == lastWrite.closed = FALSE

\* C3 (as claimed): a Run() that was in its receive loop when Close() took
\* effect does not panic, and when it has returned it has returned nil.
C3_RunReturnsNilAfterClose ==
    \A r \in loopAtClose :
        /\ panicAt # "read"
        /\ pc[r] = "returned" => ReturnedNil(r)

\* C4: at most one of 'write ping', 'write subscribe', 'write unsubscribe' and
\* 'close and clear the handle' is in progress at any time, and the one in
\* progress is the holder of the guard w.mu.
C4_WritesSerialized ==
    /\ Cardinality(InCritical) <= 1
    /\ InCritical \subseteq {mu}

\* C4 witness: a ping write is in progress while Close() waits for the guard.
C4_Witness == ping["r1"] = "locked" /\ pc["c1"] = "closeLock"

\* C5: a received frame that is exactly "pong" is not passed to the callback
\* and the loop goes on to its next select/read; any other frame read is passed
\* to the callback unchanged.
C5_PongDropped ==
    [][\A r \in Runners :
          Len(received'[r]) > Len(received[r]) =>
              LET m == received'[r][Len(received'[r])] IN
              IF m = "pong"
              THEN delivered'[r] = delivered[r] /\ pc'[r] = "select"
              ELSE delivered'[r] = Append(delivered[r], m) /\ pc'[r] = "callback"]_vars

\* C5 witness: a pong and then another frame were read; only the other frame
\* reached the callback.
C5_Witness ==
    \E r \in Runners : received[r] = <<"pong", "{a}">> /\ delivered[r] = <<"{a}">>

\* C6: for each read loop, the frames passed to the callback are the received
\* non-pong frames, each once and in receipt order, and the callback runs
\* in-line: at most one invocation is outstanding, the loop is inside it while
\* it is, and no read is in progress then.
C6_InOrderInline ==
    \A r \in Runners :
        /\ delivered[r] = SelectSeq(received[r], NotPong)
        /\ cbActive[r] \in {0, 1}
        /\ cbActive[r] = 1 <=> pc[r] = "callback"

\* C6 witness: two different non-pong frames were delivered in receipt order
\* and the second callback is still running.
C6_Witness ==
    \E r \in Runners :
        /\ received[r] = <<"{b}", "{a}">>
        /\ delivered[r] = <<"{b}", "{a}">>
        /\ pc[r] = "callback"

\* C7: when Run() handles a frame-read failure it returns a non-nil error
\* exactly when the closed flag is not set at that moment and the failure is
\* not a clean close from the peer; otherwise it returns nil.
C7_ReadErrorResult ==
    [][\A r \in Runners :
          (pc[r] = "readErr" /\ pc'[r] = "returned") =>
              /\ ReturnedErr(r)' <=> (~closed /\ ~CleanPeerClose(lastErr[r]))
              /\ ReturnedNil(r)' <=> (closed \/ CleanPeerClose(lastErr[r]))]_vars

\* C7 witness: Run() has returned the error of a read that failed with a peer
\* close frame of another code (abnormal closure), the closed flag being unset.
C7_Witness ==
    \E r \in Runners :
        /\ pc[r] = "returned"
        /\ result[r] = "readerr"
        /\ lastErr[r].close
        /\ ~closed

\* C8 (as claimed): a socket handle dialed after the closed flag was set is
\* never installed in w.conn.
C8_ClosedIsTerminal == \A h \in Handles : handles[h].late => conn # h

\* C9 (as claimed): when Run() has returned a fatal read error, the closed
\* flag is set, the done signal is broadcast and the handle is cleared.
C9_FatalReadErrorCloses ==
    \A r \in Runners :
        (pc[r] = "returned" /\ result[r] = "readerr") =>
            (closed /\ done /\ conn = NoConn)

\* C10 (as claimed): at most one keepalive loop and at most one read loop are
\* active on the instance at any time.
C10_OnePingOneReader ==
    /\ Cardinality({r \in Runners : ping[r] \in {"select", "locked"}}) <= 1
    /\ Cardinality({r \in Runners : pc[r] \in LoopPcs}) <= 1

\* The steps of one Run() up to its first read, in program order.
RunOrder == <<"dial", "ping", "subscribe", "read">>
IsPrefix(s, t) == Len(s) <= Len(t) /\ SubSeq(t, 1, Len(s)) = s

\* C11: one Run() performs, in this order, exactly one dial, the start of the
\* keepalive loop, one subscribe write and only then its first frame read; a
\* Run() whose dial failed has returned that error having done nothing else (no
\* second dial, no keepalive loop, no frame written), and a Run() is in its
\* receive loop only after its dial, keepalive start and subscribe write.
C11_RunOrder ==
    \A r \in Runners :
        /\ runLog[r] = <<"dialfail">> \/ IsPrefix(runLog[r], RunOrder)
        /\ runLog[r] = <<"dialfail">> <=> (pc[r] = "returned" /\ result[r] = "dialerr")
        /\ runLog[r] = <<"dialfail">> => ping[r] = "none"
        /\ ping[r] # "none" => IsPrefix(<<"dial", "ping">>, runLog[r])
        /\ pc[r] \in LoopPcs => IsPrefix(<<"dial", "ping", "subscribe">>, runLog[r])

\* C11 witness: a Run() has dialed, started its keepalive loop, written its
\* subscribe frame and read, and is delivering its first frame.
C11_Witness ==
    /\ runLog["r1"] = RunOrder
    /\ pc["r1"] = "callback"
    /\ Len(delivered["r1"]) = 1

\* C12 (as claimed): at the step in which Run() returns the error of its
\* failed initial subscribe write, it has read no frame, the closed flag is
\* set, the done signal is broadcast and the handle is cleared.
C12_SubscribeFailureCloses ==
    [][\A r \in Runners :
          (pc[r] # "returned" /\ pc'[r] = "returned" /\ result'[r] = "suberr") =>
              /\ ~HasRead(r) /\ received'[r] = << >> /\ delivered'[r] = << >>
              /\ closed' /\ done' /\ conn' = NoConn]_vars

\* The effective Close() (the one whose Swap found the flag unset) has returned.
EffectiveCloseReturned ==
    closed /\ \A p \in Procs : pc[p] \notin {"closeDone", "closeLock", "closeConn"}

\* C13 (as claimed): once the first effective Close() has returned, the done
\* signal is broadcast and no keepalive loop writes a ping to a socket handle.
C13_NoPingAfterClose ==
    [][EffectiveCloseReturned =>
          /\ done
          /\ \A r \in Runners :
                ~(ping[r] = "locked" /\ ping'[r] = "select" /\ conn # NoConn)]_vars

\* What a call returned: a trade record, the skip sentinel itself, or an error
\* that is not the sentinel.
IsTrade(ret) == ~ret.trade.nil /\ ret.err = NilError
IsSkip(ret) == ret.trade.nil /\ ret.err = ErrSkipMessage
IsParseError(ret) == ret.trade.nil /\ ret.err # NilError /\ ret.err # ErrSkipMessage

\* The text of a member of the message, "" when it is absent or null.
TextOf(v) == IF v.k = "string" THEN v.s ELSE ""
NumberOf(v) == IF v.k = "number" THEN v.n ELSE 0
\* The message is a JSON object whose topic and type, if present, are strings.
EnvelopeDecodes(m) == m.syntax = "object" /\ m.topic.k # "number" /\ m.type.k # "number"
MatchesTrades(m) == TextOf(m.topic) = "activity" /\ TextOf(m.type) = "trades"
\* The payload is null, or an object whose members have the types of the record.
PayloadDecodes(m) ==
    \/ m.pk = "null"
    \/ /\ m.pk = "object"
       /\ m.side.k # "number" /\ m.hash.k # "number" /\ m.outcome.k # "number"
       /\ m.price.k # "string" /\ m.size.k # "string"

\* C14: for every message that is empty or whose first byte is not '{',
\* ParseActivityTrade returns the skip sentinel and no trade record, never a
\* parse error, and makes no JSON decode.
C14_NonObjectSkipped ==
    (pOut.called /\ (MsgLen(pIn) = 0 \/ pIn.first # "{")) =>
        /\ IsSkip(pOut.ret)
        /\ ~IsParseError(pOut.ret)
        /\ pOut.ret.decodes = 0

\* C14 witness: a trades envelope preceded by white space was parsed.
C14_Witness ==
    /\ pOut.called
    /\ pIn.first = " " /\ pIn.syntax = "object" /\ MatchesTrades(pIn)

\* C15: for every well-formed envelope (first byte '{', envelope decodes) the
\* call returns the skip sentinel when topic is not "activity" or type is not
\* "trades", and a trade record with no error when they are and the payload
\* decodes; the record carries the payload's members, an absent number as 0
\* and an absent string as "".
C15_EnvelopeFilter ==
    (pOut.called /\ pIn.first = "{" /\ EnvelopeDecodes(pIn)) =>
        /\ ~MatchesTrades(pIn) => IsSkip(pOut.ret)
        /\ (MatchesTrades(pIn) /\ PayloadDecodes(pIn)) =>
              /\ IsTrade(pOut.ret)
              /\ pIn.pk = "object" =>
                    /\ pOut.ret.trade.Side = TextOf(pIn.side)
                    /\ pOut.ret.trade.Price = Float(NumberOf(pIn.price))
                    /\ pOut.ret.trade.Size = Float(NumberOf(pIn.size))
                    /\ pOut.ret.trade.TransactionHash = TextOf(pIn.hash)
                    /\ pOut.ret.trade.OutcomeTitle = TextOf(pIn.outcome)

\* C15 witness: a trade was decoded from a payload without price and
\* transactionHash; they are 0 and "" in the record.
C15_Witness ==
    /\ pOut.called
    /\ MatchesTrades(pIn) /\ pIn.pk = "object"
    /\ pIn.price = Absent /\ pIn.hash = Absent /\ pIn.side = Str("BUY")
    /\ IsTrade(pOut.ret)
    /\ pOut.ret.trade.Price = Float(0) /\ pOut.ret.trade.TransactionHash = ""

\* C16: every call yields exactly one of trade record, skip sentinel and parse
\* error; a parse error exactly when the message starts with '{' and either
\* the envelope fails to decode, or it is an activity/trades envelope whose
\* payload fails to decode; errors.Is(err, ErrSkipMessage) is false of every
\* parse error and true of every skip, so the callback's test tells them apart.
C16_ThreeOutcomes ==
    pOut.called =>
        /\ Cardinality({o \in {"trade", "skip", "parse error"} :
              \/ o = "trade" /\ IsTrade(pOut.ret)
              \/ o = "skip" /\ IsSkip(pOut.ret)
              \/ o = "parse error" /\ IsParseError(pOut.ret)}) = 1
        /\ IsParseError(pOut.ret) <=>
              /\ pIn.first = "{"
              /\ \/ ~EnvelopeDecodes(pIn)
                 \/ MatchesTrades(pIn) /\ ~PayloadDecodes(pIn)
        /\ IsParseError(pOut.ret) => ~ErrorsIs(pOut.ret.err, ErrSkipMessage)
        /\ IsSkip(pOut.ret) <=> Classify(pOut.ret) = "skip"
        /\ IsParseError(pOut.ret) <=> Classify(pOut.ret) = "parse error"
        /\ IsTrade(pOut.ret) <=> Classify(pOut.ret) = "trade"

\* C16 witness: an activity/trades envelope whose price is a JSON string was
\* parsed: the payload decode failed.
C16_Witness ==
    /\ pOut.called
    /\ MatchesTrades(pIn) /\ pIn.price = Str("0.55")
    /\ pOut.ret.err = PayloadError

\* The key a record has when it is keyed by the hash h.
KeyedBy(h) == [set |-> TRUE, bytes |-> Bytes(h)]
\* This step is a call of the callback or of ProduceTrade.
CallStep == queue' # queue \/ (last' # last /\ acks' = acks)
\* The record the call of this step enqueued.
NewRecord == queue'[Len(queue')]

\* C17: for every non-nil trade ProduceTrade is called with, the record it
\* enqueues has the bytes of the trade's transaction hash as key when the hash
\* is non-empty and no key when it is empty; any two buffered records of
\* trades with the same non-empty hash have the same key, whatever their other
\* fields and their order.
C17_KeyFromHash ==
    /\ (last.via = "direct" /\ ~last.trade.nil /\ last.enq = 1) =>
          LET key == queue[Len(queue)].Key
              hash == last.trade.TransactionHash
          IN /\ hash # "" => key = KeyedBy(hash)
             /\ hash = "" => ~key.set
    /\ (last.via = "direct" /\ ~last.trade.nil
           /\ last.trade.Price.finite /\ last.trade.Size.finite) => last.enq = 1
    /\ \A i \in DOMAIN queue :
          LET hash == TextOf(queue[i].Value.transactionHash)
          IN IF hash # "" THEN queue[i].Key = KeyedBy(hash) ELSE ~queue[i].Key.set
    /\ \A i, j \in DOMAIN queue :
          LET hi == TextOf(queue[i].Value.transactionHash)
              hj == TextOf(queue[j].Value.transactionHash)
          IN (hi # "" /\ hi = hj) => queue[i].Key = queue[j].Key
    /\ \A g, h \in {"0xabc", "0xdef"} : Bytes(g) = Bytes(h) => g = h

\* C17 witness: ProduceTrade was called with two trades of one transaction
\* that differ in side and price, then with a trade without hash; the first
\* two records have the same key, the third has none.
C17_Witness ==
    /\ Len(queue) = 3
    /\ last.via = "direct"
    /\ queue[1].Value # queue[2].Value
    /\ queue[1].Key = KeyedBy("0xabc") /\ queue[2].Key = KeyedBy("0xabc")
    /\ ~queue[3].Key.set

\* C18: a call of ProduceTrade with a nil trade enqueues no record, leaves the
\* buffered records and their delivery states as they are, and returns nil.
C18_NilTradeNoOp ==
    [][(CallStep /\ last'.via = "direct" /\ last'.trade.nil) =>
          /\ queue' = queue
          /\ acks' = acks
          /\ last'.enq = 0
          /\ last'.err = NilError]_vars

\* C18 witness: ProduceTrade returned from a call with a nil trade while a
\* record was buffered.
C18_Witness ==
    /\ last.via = "direct" /\ last.trade.nil
    /\ Len(queue) = 1 /\ acks[1] = "pending"

\* C19: a call that enqueues a record returns nil while the record's delivery
\* is still pending; a delivery outcome changes neither what a call returned
\* nor the buffered records; and after a failed delivery the callback can
\* still be invoked with a trade frame, and every invocation with a trade
\* frame enqueues one record.
C19_DeliveryFailureContained ==
    /\ [][/\ queue' # queue =>
                /\ Len(acks') = Len(queue')
                /\ acks'[Len(queue')] = "pending"
                /\ last'.err = NilError
          /\ acks' # acks /\ queue' = queue => last' = last
          /\ (CallStep /\ last'.via = "callback" /\ last'.class = "trade") =>
                last'.enq = 1]_vars
    /\ []((AnyFailed /\ Len(queue) < MaxRecords) => ENABLED CallbackInvoke(BuyFrame))

\* C19 witness: the delivery of a record failed, and the callback invoked
\* afterwards with a trade frame enqueued its record and returned normally.
C19_Witness ==
    /\ Len(queue) = 2
    /\ acks[1] = "failed"
    /\ last.via = "callback" /\ last.class = "trade" /\ last.afterFailure
    /\ last.enq = 1 /\ last.err = NilError

\* C20: a callback invocation with a frame that classifies as a trade
\* enqueues exactly one record, to the producer's topic, whose value carries
\* the side, price and size of the frame's payload and whose key is the
\* payload's transaction hash (no key when the payload has none); an
\* invocation with a frame that classifies as skip or parse error enqueues none.
C20_EndToEnd ==
    [][(CallStep /\ last'.via = "callback") =>
          LET m == last'.message IN
          IF Classify(ParseActivityTrade(m)) = "trade"
          THEN /\ queue' = Append(queue, NewRecord)
               /\ NewRecord.Topic = ProducerTopic
               /\ NewRecord.Value.side = Str(TextOf(m.side))
               /\ NewRecord.Value.price = Num(NumberOf(m.price))
               /\ NewRecord.Value.size = Num(NumberOf(m.size))
               /\ IF TextOf(m.hash) # ""
                  THEN NewRecord.Key = KeyedBy(TextOf(m.hash))
                  ELSE ~NewRecord.Key.set
          ELSE queue' = queue]_vars

\* C20 witness: the callback was invoked with the BUY 0.55 x 100 trade of
\* transaction 0xabc and then with a frame whose payload does not decode; one
\* record is buffered.
C20_Witness ==
    /\ Len(queue) = 1
    /\ queue[1].Key = KeyedBy("0xabc")
    /\ queue[1].Value.side = Str("BUY") /\ queue[1].Value.price = Num(55)
    /\ last.via = "callback" /\ last.class = "parse error"

\* What the callback makes of a frame of the feed.
FrameClass(f) == Classify(ParseActivityTrade(FrameMsg(f)))
IsTradeFrame(f) == FrameClass(f) = "trade"
\* The frames whose callback invocation has returned.
Processed(r) ==
    IF pc[r] = "callback" THEN SubSeq(delivered[r], 1, Len(delivered[r]) - 1)
    ELSE delivered[r]

\* C21: the callback invocation for a frame that is a parse error returns to
\* the read loop, which goes on to its next select: Run() has not returned,
\* the closed flag, the done signal, the handle and the producer's buffer are
\* as before; and the invocation for every trade frame, earlier parse errors
\* or not, enqueues one record.
C21_ParseErrorContained ==
    [][\A r \in Runners :
          (pc[r] = "callback" /\ pc'[r] # "callback") =>
              /\ FrameClass(CallbackFrame(r)) = "parse error" =>
                    /\ pc'[r] = "select" /\ result'[r] = "none"
                    /\ closed' = closed /\ done' = done
                    /\ conn' = conn /\ handles' = handles
                    /\ queue' = queue
              /\ FrameClass(CallbackFrame(r)) = "trade" =>
                    /\ pc'[r] = "select"
                    /\ Len(queue') = Len(queue) + 1]_vars

\* C21 witness: a frame whose payload does not decode was followed by a trade
\* frame, which was read, delivered and enqueued.
C21_Witness ==
    /\ received["r1"] = <<"{c}", "{a}">>
    /\ pc["r1"] = "select"
    /\ Len(queue) = 1 /\ queue[1].Key = KeyedBy("0xabc")
    /\ ~closed

\* C30: the records the producer has buffered are those of the trade frames
\* the read loop has processed, in the order of receipt, each keyed by its
\* hash; so two trade frames with the same non-empty hash have their records
\* enqueued in the order received, with the same key.
C30_OrderPerKey ==
    LET frames == SelectSeq(Processed("r1"), IsTradeFrame) IN
    /\ Len(queue) = Len(frames)
    /\ \A i \in DOMAIN queue :
          LET m == FrameMsg(frames[i]) IN
          /\ queue[i].Value.side = Str(TextOf(m.side))
          /\ queue[i].Value.transactionHash = Str(TextOf(m.hash))
          /\ TextOf(m.hash) # "" => queue[i].Key = KeyedBy(TextOf(m.hash))
    /\ \A i, j \in DOMAIN queue :
          (i < j /\ queue[i].Value.transactionHash = queue[j].Value.transactionHash
                 /\ TextOf(queue[i].Value.transactionHash) # "") =>
              /\ queue[i].Key = queue[j].Key
              /\ \E a, b \in DOMAIN delivered["r1"] :
                    /\ a < b
                    /\ Str(TextOf(FrameMsg(delivered["r1"][a]).side)) = queue[i].Value.side
                    /\ Str(TextOf(FrameMsg(delivered["r1"][b]).side)) = queue[j].Value.side

\* C30 witness: the two trades of transaction 0xabc were received in the order
\* {b}, {a}; their records are buffered in that order with the same key.
C30_Witness ==
    /\ delivered["r1"] = <<"{b}", "{a}">>
    /\ Len(queue) = 2
    /\ queue[1].Value.side = Str("") /\ queue[2].Value.side = Str("BUY")
    /\ queue[1].Key = queue[2].Key

\* The process has ended: main() returned, or a goroutine panicked.
ProcessEnded == ~Alive

\* C22 (as claimed): when the process has ended after a termination signal,
\* Close has been called on the client and on every sink main() constructed.
C22_ShutdownClosesAll ==
    (mainPc # "running" /\ ProcessEnded) => (closed /\ sinksClosed = Sinks)

\* Close() of the TradeWriter has returned to its caller.
TwCloseReturned == twPc["k1"] = "returned"

\* C23: once Close() has returned, every row a Write accepted has been part of
\* at least one sender.Flush call.
C23_AcceptedRowsFlushed ==
    TwCloseReturned =>
        \A row \in AllRows : twRows[row].accepted => twRows[row].attempts >= 1

\* Close() returned, and a row was accepted that only Close's flush contained.
C23_Witness ==
    /\ TwCloseReturned
    /\ twMode = "tcp"
    /\ twFlushes["timer"] = 0
    /\ twFlushes["explicit"] = 0
    /\ twRows[1].accepted
    /\ twRows[1].attempts = 1

\* Close() is past its close(w.done) statement.
TwCloseStarted == twPc["k1"] \in {"lock", "finalFlush", "release", "returned"}

\* C24: Close() first closes done (when there is one), then makes exactly one
\* final flush under w.mu, then releases the sender; a failed final flush is
\* printed, leaves Close holding w.mu before the release, and is not returned;
\* no timer flush is in progress during the final flush or the release.
C24_CloseOrder ==
    /\ [](/\ twDone = (twMode = "tcp" /\ TwCloseStarted)
          /\ twFlushes["close"] =
                 (IF twPc["k1"] \in {"finalFlush", "release", "returned"} THEN 1 ELSE 0)
          /\ twClosed = TwCloseReturned
          /\ twPc["k1"] \in {"finalFlush", "release"} =>
                 (twMu = "k1" /\ twPc[TwTimer] # "flushing")
          /\ twPc["k1"] = "release" => twSending["k1"] = << >>
          /\ TwCloseReturned => twRet["k1"].kind \in {"nil", "close error"}
          /\ twFailed["close"] = 1 => "final flush error" \in twLog)
    /\ [][twFailed'["close"] # twFailed["close"] =>
              /\ twPc'["k1"] = "release"
              /\ twMu' = "k1"
              /\ ~twClosed'
              /\ twRet' = twRet]_vars

\* Close() of a writer with a background flusher returned nil although its
\* final flush failed, after a timer flush had run.
C24_Witness ==
    /\ TwCloseReturned
    /\ twMode = "tcp"
    /\ twClosed
    /\ twFailed["close"] = 1
    /\ twFlushes["timer"] >= 1
    /\ twRet["k1"] = Ret("nil", 0)

\* The goroutine is inside an operation on the sender.
InSession(p) == twPc[p] \in {"at", "flushing", "finalFlush", "release", "batchAt", "batchFlush"}

\* C25: at most one goroutine is inside an operation on the sender, and it
\* is the one holding w.mu.
C25_OneAtATime ==
    /\ Cardinality({p \in TwProcs : InSession(p)}) <= 1
    /\ \A p \in TwProcs : InSession(p) => twMu = p

\* A timer flush is in progress while Close, Write and Flush callers wait.
C25_Witness ==
    /\ twPc[TwTimer] = "flushing"
    /\ twPc["k1"] = "lock"
    /\ twRows[1].accepted
    /\ twBuf # << >>

\* Some sender.Flush of the timer or of an explicit Flush has failed.
FlushHasFailed == twFailed["timer"] + twFailed["explicit"] > 0
NoFlushFailed == \A k \in FlushKinds : twFailed[k] = 0

\* C28: no row is sent by two flushes, only accepted rows are sent, and once
\* Close() has returned every accepted row was part of a flush; while no flush
\* has failed, every row is part of at most one flush and, after Close(), has
\* been sent by exactly one.
C28_EachRowOnce ==
    \A row \in AllRows :
        /\ twRows[row].sent <= 1
        /\ twRows[row].sent <= twRows[row].attempts
        /\ twRows[row].attempts >= 1 => twRows[row].accepted
        /\ (TwCloseReturned /\ twRows[row].accepted) => twRows[row].attempts >= 1
        /\ NoFlushFailed => twRows[row].attempts <= 1
        /\ (NoFlushFailed /\ TwCloseReturned /\ twRows[row].accepted) => twRows[row].sent = 1

\* Close() returned after two rows were sent by different flushes, the first
\* of them by a timer flush, none of them twice.
C28_Witness ==
    /\ TwCloseReturned
    /\ NoFlushFailed
    /\ twAppended = <<1, 2>>
    /\ twFlushes["timer"] = 1
    /\ twFlushes["explicit"] = 1
    /\ twRows[1].sent = 1
    /\ twRows[2].sent = 1

\* A Write on the unreleased sender appends its row.
WriteAccepts == \E row \in WriterRows : TwWriteAt("w1", row, TRUE) /\ twAppended' # twAppended

\* C29: a failed explicit Flush returns the error, prints nothing and releases
\* w.mu; a failed timer flush prints the error, returns nothing to any caller,
\* releases w.mu and leaves backgroundFlush at its select; after a failure a
\* Write still appends and a Flush still starts.
C29_FlushFailureNonFatal ==
    /\ [][/\ twFailed'["explicit"] # twFailed["explicit"] =>
                 /\ twRet'["f1"] = Ret("flush error", 0)
                 /\ twLog' = twLog
                 /\ twMu' = "free"
                 /\ twPc'["f1"] = "idle"
                 /\ twPc'[TwTimer] = twPc[TwTimer]
          /\ twFailed'["timer"] # twFailed["timer"] =>
                 /\ "flush error" \in twLog'
                 /\ twRet' = twRet
                 /\ twMu' = "free"
                 /\ twPc'[TwTimer] = "select"]_vars
    /\ []((FlushHasFailed /\ twPc["w1"] = "at" /\ ~twClosed) => ENABLED WriteAccepts)
    /\ []((FlushHasFailed /\ twPc["f1"] = "idle" /\ twMu = "free" /\ FlushBudget)
              => ENABLED TwFlushLock("f1"))

\* A timer flush failed and dropped row 1; row 2 was written afterwards and a
\* later flush sent it.
C29_Witness ==
    /\ twFailed["timer"] = 1
    /\ twFailed["explicit"] = 0
    /\ twFlushes["explicit"] = 1
    /\ twAppended = <<1, 2>>
    /\ twRows[1].attempts = 1
    /\ twRows[1].sent = 0
    /\ twRows[2].attempts = 1
    /\ twRows[2].sent = 1
    /\ twPc[TwTimer] = "select"
    /\ ~twClosed

\* The rows of the WriteBatch call that the sender accepted, in order.
InBatch(row) == row \in Range(Batch)
BatchAppended == SelectSeq(twAppended, InBatch)
BatchReturned == twPc["b1"] = "returned"

\* C26: when WriteBatch returned a Write's error, that error is the one of
\* the trade the loop stopped at, the trades before it were appended in order,
\* that trade and the ones after it were not appended, and WriteBatch made no
\* flush; the loop never goes past a trade whose Write failed.
C26_BatchStopsAtFirstFailure ==
    /\ [](\A i \in 1..Len(Batch) :
             (BatchReturned /\ twRet["b1"] = Ret("write error", Batch[i])) =>
                 /\ i <= Len(twBatch.trades)
                 /\ twBatch.i = i
                 /\ BatchAppended = SubSeq(Batch, 1, i - 1)
                 /\ \A j \in i..Len(Batch) : ~twRows[Batch[j]].accepted
                 /\ twFlushes["batch"] = 0)
    /\ [][(twRet'["b1"] # twRet["b1"] /\ twRet'["b1"].kind = "write error") =>
              (twPc'["b1"] = "returned" /\ twBatch' = twBatch /\ twFlushes' = twFlushes)]_vars

\* WriteBatch of three trades returned the error of the second, after a
\* timer flush.
C26_Witness ==
    /\ BatchReturned
    /\ Len(twBatch.trades) = 3
    /\ twRet["b1"] = Ret("write error", 12)
    /\ BatchAppended = <<11>>
    /\ twFlushes["timer"] = 1
    /\ twFlushes["batch"] = 0

\* C27: when no Write of WriteBatch failed, the trades were appended in the
\* order given, all of them before the one flush WriteBatch makes, and
\* WriteBatch returned that flush's result; an empty batch makes that flush
\* and appends nothing.
C27_BatchWritesThenFlushes ==
    /\ twFlushes["batch"] <= 1
    /\ twFlushes["batch"] = 1 =>
           (BatchAppended = twBatch.trades /\ twBatch.i = Len(twBatch.trades) + 1)
    /\ (BatchReturned /\ twRet["b1"].kind # "write error") =>
           /\ BatchAppended = twBatch.trades
           /\ twFlushes["batch"] = 1
           /\ twRet["b1"] = (IF twFailed["batch"] = 1 THEN Ret("flush error", 0)
                             ELSE Ret("nil", 0))

\* WriteBatch of three trades returned its flush's error; a Write of another
\* caller landed between its trades.
C27_Witness ==
    /\ BatchReturned
    /\ twAppended = <<11, 1, 12, 13>>
    /\ twFlushes["batch"] = 1
    /\ twRet["b1"] = Ret("flush error", 0)

\* The payload member is missing from the envelope.
PayloadMissing(m) == m.pk = "absent"
\* The payload is not of the shape of the trade record: it is not a JSON
\* object, or a member of it has another JSON type than the record's field.
PayloadWrongShape(m) == m.pk \in {"null", "other"} \/ (m.pk = "object" /\ ~PayloadDecodes(m))
\* The call returned a trade record all of whose fields are zero.
IsZeroTrade(ret) ==
    /\ IsTrade(ret)
    /\ ret.trade.Side = "" /\ ret.trade.TransactionHash = "" /\ ret.trade.OutcomeTitle = ""
    /\ ret.trade.Price = Float(0) /\ ret.trade.Size = Float(0)

\* C31 (as claimed): an envelope that decodes and is not activity/trades is
\* skipped whatever its payload, never a parse error; an activity/trades
\* envelope whose payload is missing or of the wrong shape is a parse error,
\* never a skip and never a zero-valued trade.
C31_FilterBeforePayload ==
    (pOut.called /\ pIn.first = "{" /\ EnvelopeDecodes(pIn)) =>
        /\ ~MatchesTrades(pIn) => (IsSkip(pOut.ret) /\ pOut.ret.decodes = 1)
        /\ (MatchesTrades(pIn) /\ (PayloadMissing(pIn) \/ PayloadWrongShape(pIn))) =>
              /\ IsParseError(pOut.ret)
              /\ ~IsSkip(pOut.ret)
              /\ ~IsZeroTrade(pOut.ret)

\* C32 (as claimed): Subscribe() and Unsubscribe(), whenever they are called,
\* write their frame or return an error: neither dereferences a nil w.conn,
\* neither panics.
C32_SubscribeNeverPanics == panicAt \notin {"subscribe", "unsubscribe"}

\* C33 (as claimed): the receive loop never evaluates w.conn.ReadMessage() on
\* a w.conn that Close() has set to nil.
C33_NoReadOnClearedHandle ==
    /\ panicAt # "read"
    /\ \A r \in Runners : pc[r] = "reading" => local[r] # NoConn

\* C34 (as claimed): once a Close() and the Run() have both returned (and no
\* Close() is still in progress), w.conn is nil and no handle that was dialed
\* is still open.
C34_NoHandleLeftOpen ==
    (pc["c1"] = "returned" /\ pc["r1"] = "returned" /\ EffectiveCloseReturned) =>
        /\ conn = NoConn
        /\ \A h \in Handles : handles[h].state # "open"

\* This step starts the message callback of runner r.
CallbackStarts(r) == Len(delivered'[r]) > Len(delivered[r])

C36_NoSinkUseAfterSinkClose ==
    [][(queue' # queue \/ (last' # last /\ last'.via = "callback" /\ last'.class = "trade"))
          => "producer" \notin sinksClosed]_vars

\* C37 (as claimed): no timer-driven sender.Flush is started once Close() has
\* released the sender.
C37_NoTimerFlushAfterRelease ==
    [][twFlushes'["timer"] # twFlushes["timer"] => ~twClosed]_vars

\* The number of Close() calls that have called sender.Close(ctx).
Releases == Cardinality({p \in TwClosers : twPc[p] = "returned"})

\* C38 (as claimed): however often Close() is called on a TradeWriter, no call
\* panics and the sender is released at most once.
C38_CloseTwiceHarmless ==
    /\ panicAt # "writer close"
    /\ Releases <= 1

\* The wallet an address names, whatever the case of its letters.
WalletOf(address) ==
    IF address \in {"0xAb", "0xab"} THEN "ab"
    ELSE IF address \in {"0xCD", "0xcd"} THEN "cd" ELSE address

\* C39: profileWriter.Write is called at most once per wallet, comparing
\* addresses case-insensitively; the check and the mark are made by the holder
\* of ds.mu, one task at a time; a task that went on to write has its wallet
\* marked, and a mark is never removed, whatever its write or flush returned.
C39_OneWritePerWallet ==
    /\ [](/\ \A i, j \in DOMAIN dsWrites :
                WalletOf(dsWrites[i]) = WalletOf(dsWrites[j]) => i = j
          /\ \A t \in Tasks : dsPc[t] = "check" <=> dsMu = t
          /\ \A t \in Tasks :
                dsPc[t] \in {"write", "flush", "failed", "saved"} =>
                    \E a \in dsSeen : WalletOf(a) = WalletOf(dsAddr[t]))
    /\ [][dsSeen \subseteq dsSeen']_vars

\* The write for 0xAb failed; a later task for 0xab found the wallet marked
\* and returned without writing.
C39_Witness ==
    /\ dsPc[1] = "failed" /\ dsAddr[1] = "0xAb"
    /\ dsPc[2] = "skipped" /\ dsAddr[2] = "0xab"
    /\ dsWrites = <<"0xAb">>
    /\ "write error" \in dsLog

====
